---- MODULE Spec2Model ----
(***************************************************************************)
(* Model of the voice-router Rust SDK (rust-sdk/src):                      *)
(*   - the per-vendor streaming session task spawned by transcribe_stream  *)
(*     (adapters/assemblyai.rs, adapters/deepgram.rs, adapters/gladia.rs)  *)
(*     together with the caller-side handles (adapters/mod.rs,             *)
(*     types/mod.rs) and the AudioBuffer (adapters/streaming.rs);          *)
(*   - VoiceRouter provider selection (router.rs);                         *)
(*   - poll_for_completion of the asynchronous batch vendors.              *)
(***************************************************************************)
EXTENDS Integers, Sequences, FiniteSets, TLC

VARIABLES
    \* ---- streaming session -------------------------------------------
    vendor,      \* which adapter's transcribe_stream spawned the task
    api,         \* caller-side wrapper: "session" (StreamingSession) or
                 \* "handle" (StreamingSessionHandle + separate event_rx)
    pc,          \* position of the spawned task
    pending,     \* event the task is sending with event_tx.send(..).await
    audioQ,      \* mpsc channel audio_tx -> audio_rx (chunks in flight)
    submitted,   \* chunks for which send_audio returned Ok, in order
    buffer,      \* AudioBuffer.buffer (AssemblyAI only)
    wire,        \* every transport operation the task performed, in order
    received,    \* kinds of the results ws.recv() returned, in order
    emitted,     \* events accepted by the event channel, in order
    rxCount,     \* how many of them the caller has taken from event_rx
    audioTx,     \* caller's audio sender: "held", "closing", "dropped"
    eventRx,     \* caller's event receiver: "held", "closing", "dropped"
    closeTx,     \* one-shot close sender: "held", "fired", "dropped"
    closeSeen,   \* the task ran its close branch
    conn,        \* result of WebSocketConnection::connect: "pending", "ok", "failed"
    closeAt,     \* where the task was when the close trigger was first fired
    lastCall,    \* last send_audio / close call of the caller and its result
    \* ---- VoiceRouter --------------------------------------------------
    rphase,          \* "config" before VoiceRouter::new, then "ready" or "panicked"
    newPanic,        \* the message VoiceRouter::new panicked with, or "None"
    cfgProviders,    \* keys of config.providers
    cfgKeys,         \* configured providers whose api_key is not empty
    strategy,        \* config.selection_strategy
    defaultProvider, \* config.default_provider ("None" when unset)
    adapters,        \* keys of the adapters map
    order,           \* iteration order of adapters.keys()
    rrIndex,         \* round_robin_index
    rrLog,           \* providers returned by round robin since the map last changed
    rrBase,          \* value of round_robin_index when the map last changed
    lastSelect,      \* outcome of the last sequential select_provider
    cpc,             \* concurrent callers: position inside select_provider(None)
    cidx,            \* concurrent callers: the index fetch_add returned
    selCount,        \* concurrent callers: selections returned, per provider
    handed,          \* every value fetch_add has returned, in order
    \* ---- poll_for_completion -----------------------------------------
    pollVendor,  \* adapter whose poll_for_completion runs
    apiConfig,   \* self.api_config is Some (initialize succeeded)
    ppc,         \* "start", "fetch", "sleep" or "done"
    attempt,     \* loop variable of `for _ in 0..MAX_ATTEMPTS`
    fetches,     \* status fetches issued for the job
    fetchLog,    \* results of the first MaxLogged fetches, in order
    lastFetch,   \* result of the latest fetch
    pollResult,  \* what poll_for_completion returned
    \* ---- batch methods of an adapter ----------------------------------
    bOp,         \* the method called: "transcribe" or "get_transcript"
    bInput,      \* AudioInput variant handed to transcribe
    bWebhook,    \* options.webhook_url is Some
    bpc,         \* "start", "submit", "poll" or "done"
    submits,     \* submit calls issued to the vendor
    bResult,     \* what the method returned
    \* ---- one AudioBuffer used directly --------------------------------
    abMin,       \* AudioBuffer.min_bytes
    abMax,       \* AudioBuffer.max_bytes
    abBuf,       \* AudioBuffer.buffer
    abIn,        \* every byte handed to add, in call order
    abOut,       \* every chunk add and flush have returned, in return order
    abLast,      \* the last call and what it returned
    abAdds,      \* add calls made
    abFlushes,   \* flush calls made
    \* ---- one streaming text message handed to a parser ----------------
    psVendor,    \* the adapter whose parse_streaming_message is called
    psMsg,       \* the shape of the text message
    psEvent,     \* what parse_streaming_message returned
    \* ---- one AssemblyAI word or utterance handed to its mapper --------
    twSource,    \* "map_word", "map_utterance" or "Turn" (streaming words)
    twStart,     \* the vendor's start, integer milliseconds
    twEnd,       \* the vendor's end, integer milliseconds
    twOut,       \* the canonical start and end the mapper returned
    \* ---- one audio encoding handed to a vendor mapping ----------------
    enOp,        \* the function called
    enVendor,    \* the StreamingProvider, or the adapter that opens a stream
    enEncoding,  \* the encoding given: an AudioEncoding, a string, or "None"
    enChannels,  \* Option<AudioChannels> given to validate_audio_config
    enOut,       \* what the function returned
    \* ---- calls made through one VoiceRouter ---------------------------
    streamCaps,  \* capabilities().streaming of the adapter of each provider
    routed,      \* the last call through the router and where it ended
    \* ---- one webhook payload handed to WebhookRouter::route -----------
    whPayload,   \* the shape of the payload bytes
    whOut,       \* what route returned
    \* ---- one diarized job polled to its end ---------------------------
    dzScript,    \* the statuses the vendor reports, fetch after fetch
    dzBody,      \* utterances and words of the vendor's completed job
    dzData,      \* speakers and words of the TranscriptionData returned
    \* ---- the status fetches made for one job --------------------------
    jfConfig,    \* api_config is Some
    jfPc,        \* position of poll_for_completion
    jfAttempt,   \* loop variable of poll_for_completion
    jfPolling,   \* fetches of poll_for_completion awaiting their answer
    jfSlept,     \* the sleep after the last answer has returned
    jfGetters,   \* position of each caller of get_transcript for the job
    \* ---- two routers and their round-robin counters -------------------
    rtStrategy,  \* config.selection_strategy of each router
    rtOrder,     \* adapters.keys() of each router, in iteration order
    rtDefault,   \* config.default_provider of each router
    rtIndex,     \* round_robin_index of each router
    rtLast       \* the last select_provider call: router, result, number

sessVars == <<vendor, api, pc, pending, audioQ, submitted, buffer, wire,
              received, emitted, rxCount, audioTx, eventRx, closeTx,
              closeSeen, conn, closeAt, lastCall>>

routerVars == <<rphase, newPanic, cfgProviders, cfgKeys, strategy, defaultProvider,
                adapters, order, rrIndex, rrLog, rrBase, lastSelect>>

callerVars == <<cpc, cidx, selCount, handed>>

pollVars == <<pollVendor, apiConfig, ppc, attempt, fetches, fetchLog,
              lastFetch, pollResult>>

batchVars == <<bOp, bInput, bWebhook, bpc, submits, bResult>>

bufVars == <<abMin, abMax, abBuf, abIn, abOut, abLast, abAdds, abFlushes>>

parseVars == <<psVendor, psMsg, psEvent>>

\* the variables of the pure functions checked on their own
timeVars == <<twSource, twStart, twEnd, twOut>>

encVars == <<enOp, enVendor, enEncoding, enChannels, enOut>>

pureVars == <<parseVars, timeVars, encVars>>

dispatchVars == <<streamCaps, routed>>

\* the variables the session, router, poll, batch and buffer specifications
\* leave alone
webhookVars == <<whPayload, whOut>>

diarVars == <<dzScript, dzBody, dzData>>

fetchVars == <<jfConfig, jfPc, jfAttempt, jfPolling, jfSlept, jfGetters>>

\* the variables of the normalizers and of the fetch schedule, checked on
\* their own
counterVars == <<rtStrategy, rtOrder, rtDefault, rtIndex, rtLast>>

normVars == <<webhookVars, diarVars, fetchVars, counterVars>>

otherVars == <<pureVars, dispatchVars, normVars>>

vars == <<sessVars, routerVars, callerVars, pollVars, batchVars, bufVars,
          otherVars>>

-----------------------------------------------------------------------------
(* Bounds of the model                                                     *)

\* inputs of one session: audio chunks the caller submits plus results
\* ws.recv() yields
MaxInputs == 3
\* capacity of the mpsc audio and event channels (32 in the source, scaled)
ChanCap == 1
\* AudioBuffer::for_assemblyai policy (1_600 / 32_000 in the source, scaled)
MinBytes == 1
MaxBytes == 2
\* select_provider calls made on one router
MaxCalls == 6
\* tasks calling select_provider concurrently
NCallers == 2
\* register_adapter calls that add an adapter to one router
MaxRegistrations == 1
\* fetch results of one poll kept in fetchLog
MaxLogged == 3
\* AudioBuffer used directly: largest min_bytes and max_bytes, longest
\* input of one add, number of add calls and of flush calls
MaxMinBytes == 2
MaxMaxBytes == 4
MaxAddLen == 5
MaxAdds == 3
MaxFlushes == 2
\* words one streaming message carries at most
MaxWords == 2
\* the latest start of a word, in milliseconds, and its longest duration
MaxMs == 1030
MaxSpanMs == 2
\* round-robin selections made by calls through one router
MaxDispatch == 1
\* providers in the configuration of a router that calls are made through
MaxConfigured == 2

-----------------------------------------------------------------------------
(* Vendors and their wire constants                                        *)

Vendors == {"AssemblyAI", "Deepgram", "Gladia"}

\* the literal termination control message of each vendor's close branch
TerminationMessage(v) ==
    CASE v = "AssemblyAI" -> "{\"terminate_session\":true}"
      [] v = "Deepgram"   -> "{\"type\":\"CloseStream\"}"
      [] v = "Gladia"     -> "{\"type\":\"stop_recording\"}"

\* only AssemblyAI routes caller audio through an AudioBuffer
BufferedNever(v) == FALSE
Buffered(v) == v = "AssemblyAI"

-----------------------------------------------------------------------------
(* Sequence helpers                                                        *)

Range(s) == {s[i] : i \in DOMAIN s}

RECURSIVE Flatten(_)
Flatten(ss) == IF ss = <<>> THEN <<>> ELSE Head(ss) \o Flatten(Tail(ss))

Count(s, P(_)) == Cardinality({i \in DOMAIN s : P(s[i])})

Bytes(from, n) == [i \in 1..n |-> from + i - 1]

-----------------------------------------------------------------------------
(* AudioBuffer (adapters/streaming.rs)                                     *)

\* AudioBuffer::add: the chunks drained off the front while len >= max_bytes
AddChunksFirstOnly(buf, max) ==
    IF Len(buf) >= max THEN <<SubSeq(buf, 1, max)>> ELSE <<>>
RECURSIVE AddChunks(_, _)
AddChunks(buf, max) ==
    IF Len(buf) >= max
    THEN <<SubSeq(buf, 1, max)>> \o AddChunks(SubSeq(buf, max + 1, Len(buf)), max)
    ELSE <<>>

\* AudioBuffer::add: what stays buffered
AddRestOnce(buf, max) ==
    IF Len(buf) >= max THEN SubSeq(buf, max + 1, Len(buf)) ELSE buf
RECURSIVE AddRest(_, _)
AddRest(buf, max) ==
    IF Len(buf) >= max
    THEN AddRest(SubSeq(buf, max + 1, Len(buf)), max)
    ELSE buf

\* AudioBuffer::flush as a 0/1-element sequence: Some(all bytes) when
\* len >= min_bytes (an empty buffer included when min_bytes = 0) or when the
\* buffer is not empty, None otherwise
FlushChunk(buf, min) ==
    IF Len(buf) >= min THEN <<buf>>
    ELSE IF buf # <<>> THEN <<buf>>
    ELSE <<>>

-----------------------------------------------------------------------------
(* Stream events (adapters/streaming.rs, parse_streaming_message)          *)

NoEvent == [type |-> "None", code |-> "", src |-> 0]

Event(t, c, k) == [type |-> t, code |-> c, src |-> k]

error_event(code) == Event("Error", code, 0)
open_event == Event("Open", "", 0)
close_event == Event("Close", "", 0)

\* what ws.recv() can return: a text frame of one of these shapes, another
\* frame (binary, ping, pong), a Close frame, a receive error, end of stream
TextKinds == {"transcript", "utterance", "metadata", "error", "info", "unknown"}
MsgKinds == TextKinds \cup {"other", "close", "err", "eof"}

\* AssemblyAIAdapter::parse_streaming_message: "error" is any object with an
\* error string; Begin/Termination -> Metadata; Turn -> Transcript;
\* SessionInformation ("info") and everything else -> None
ParseAssemblyAI(kind, k) ==
    CASE kind = "error"      -> Event("Error", "PROVIDER_ERROR", k)
      [] kind = "metadata"   -> Event("Metadata", "", k)
      [] kind = "transcript" -> Event("Transcript", "", k)
      [] OTHER               -> NoEvent

\* DeepgramAdapter::parse_streaming_message: Results -> Transcript (None when
\* it has no alternative: "info"); UtteranceEnd -> Utterance; Metadata;
\* there is no error variant, an error frame does not parse
ParseDeepgram(kind, k) ==
    CASE kind = "transcript" -> Event("Transcript", "", k)
      [] kind = "utterance"  -> Event("Utterance", "", k)
      [] kind = "metadata"   -> Event("Metadata", "", k)
      [] OTHER               -> NoEvent

\* GladiaAdapter::parse_streaming_message
ParseGladia(kind, k) ==
    CASE kind = "transcript" -> Event("Transcript", "", k)
      [] kind = "utterance"  -> Event("Utterance", "", k)
      [] kind = "metadata"   -> Event("Metadata", "", k)
      [] kind = "error"      -> Event("Error", "PROVIDER_ERROR", k)
      [] OTHER               -> NoEvent

\* the results the session model draws for ws.recv(); the remaining text
\* shapes take the same path through the loop as "transcript" or "unknown",
\* and "other" frames (the `_ => {}` arm) the same path as "unknown"
SessionKinds == {"transcript", "error", "unknown", "close", "err", "eof"}

parse_streaming_message_strict(v, kind, k) ==
    IF kind = "unknown" THEN Event("Error", "PARSE_ERROR", k)
    ELSE CASE v = "AssemblyAI" -> ParseAssemblyAI(kind, k)
           [] v = "Deepgram"   -> ParseDeepgram(kind, k)
           [] v = "Gladia"     -> ParseGladia(kind, k)
parse_streaming_message(v, kind, k) ==
    CASE v = "AssemblyAI" -> ParseAssemblyAI(kind, k)
      [] v = "Deepgram"   -> ParseDeepgram(kind, k)
      [] v = "Gladia"     -> ParseGladia(kind, k)

-----------------------------------------------------------------------------
(* Transport operations recorded on the wire                               *)

\* `res` is the result as the task sees it: "ok" or "err" where the code
\* branches on it, "ignored" where the code discards it (`let _ = ..`)
Binary(data, res) == [op |-> "binary", data |-> data, text |-> "", res |-> res]
Text(t, res)      == [op |-> "text", data |-> <<>>, text |-> t, res |-> res]
WsClose(res)      == [op |-> "close", data |-> <<>>, text |-> "", res |-> res]

\* the task is sending `ev`; it goes to okTo when the send returns Ok and to
\* errTo when it returns Err (receiver dropped)
Sending(ev, okTo, errTo) == [ev |-> ev, okTo |-> okTo, errTo |-> errTo]
Idle == Sending(NoEvent, "select", "select")

\* a caller's call: which, what it returned, whether the task had ended
Call(op, res, ended) == [op |-> op, res |-> res, ended |-> ended]
NoCall == Call("none", "none", FALSE)

\* Sender::send on the audio or the close channel: Err(SendError) once the
\* receiving half is dropped, which both wrappers map to their error type
send_result(rxDropped) == IF rxDropped THEN "err" ELSE "ok"

\* StreamingSessionHandle::close with close_tx already taken: falls through
\* to Ok(())
repeat_close_result == "ok"

\* the caller numbers the bytes it submits 1, 2, 3, ...
NextByte == Len(Flatten(submitted)) + 1

\* a caller chunk is either a single byte or one byte more than max_bytes
ChunkLens == {1, MaxBytes + 1}

InputsLeft == Len(submitted) + Len(received) < MaxInputs

\* events still inside the event channel
EventQueueLen == Len(emitted) - rxCount

\* the task has returned: audio_rx, event_tx, close_rx and ws are dropped
TaskEnded == pc = "done"

\* "connect" until the open event is out, "loop" while the task waits in
\* select!, "handler" while it runs a branch of select!, "ended" afterwards
TaskPhase ==
    CASE pc = "connect" -> "connect"
      [] pc = "emit" /\ pending.ev \in {open_event, error_event("CONNECTION_ERROR")}
                     -> "connect"
      [] pc = "select" -> "loop"
      [] pc = "emit"   -> "handler"
      [] pc = "done"   -> "ended"

-----------------------------------------------------------------------------
(* The spawned session task                                                *)

SessInit ==
    /\ vendor \in Vendors
    /\ api \in {"session", "handle"}
    /\ pc = "connect"
    /\ pending = Idle
    /\ audioQ = <<>>
    /\ submitted = <<>>
    /\ buffer = <<>>
    /\ wire = <<>>
    /\ received = <<>>
    /\ emitted = <<>>
    /\ rxCount = 0
    /\ audioTx = "held"
    /\ eventRx = "held"
    /\ closeTx = "held"
    /\ closeSeen = FALSE
    /\ conn = "pending"
    /\ closeAt = "never"
    /\ lastCall = NoCall

\* the match on conn_result: Ok continues with the open event and the loop,
\* Err sends the CONNECTION_ERROR event and returns
OnConnectNoReturn(ok) ==
    IF ok THEN Sending(open_event, "select", "select")
          ELSE Sending(error_event("CONNECTION_ERROR"), "select", "select")
OnConnect(ok) ==
    IF ok THEN Sending(open_event, "select", "select")
          ELSE Sending(error_event("CONNECTION_ERROR"), "done", "done")

\* WebSocketConnection::connect (Err on a failed handshake or after the 10 s
\* timeout) and the match on its result
Connect ==
    /\ pc = "connect"
    /\ \E ok \in BOOLEAN :
         /\ pending' = OnConnect(ok)
         /\ conn' = IF ok THEN "ok" ELSE "failed"
    /\ pc' = "emit"
    /\ UNCHANGED <<vendor, api, audioQ, submitted, buffer, wire, received,
                   emitted, rxCount, audioTx, eventRx, closeTx, closeSeen,
                   closeAt, lastCall>>

EmitEventInFront ==
    /\ pc = "emit"
    /\ \/ /\ eventRx = "dropped"
          /\ pc' = pending.errTo
          /\ UNCHANGED emitted
       \/ /\ eventRx # "dropped"
          /\ EventQueueLen < ChanCap
          /\ emitted' = <<pending.ev>> \o emitted
          /\ pc' = pending.okTo
    /\ pending' = Idle
    /\ UNCHANGED <<vendor, api, audioQ, submitted, buffer, wire, received,
                   rxCount, audioTx, eventRx, closeTx, closeSeen, conn,
                   closeAt, lastCall>>
\* event_tx.send(event).await: Err once the receiver is dropped, otherwise
\* waits for room in the channel
EmitEvent ==
    /\ pc = "emit"
    /\ \/ /\ eventRx = "dropped"
          /\ pc' = pending.errTo
          /\ UNCHANGED emitted
       \/ /\ eventRx # "dropped"
          /\ EventQueueLen < ChanCap
          /\ emitted' = Append(emitted, pending.ev)
          /\ pc' = pending.okTo
    /\ pending' = Idle
    /\ UNCHANGED <<vendor, api, audioQ, submitted, buffer, wire, received,
                   rxCount, audioTx, eventRx, closeTx, closeSeen, conn,
                   closeAt, lastCall>>

\* where the task goes after the SEND_ERROR event of the audio branch:
\* Deepgram and Gladia `break` out of the select loop; in AssemblyAI the
\* `break` sits inside `for chunk in audio_buffer.add(..)` and leaves only
\* that for loop
AfterSendError(v) == IF Buffered(v) THEN "select" ELSE "done"

\* select! branch: Some(audio_data) = audio_rx.recv()
AudioBranch ==
    /\ pc = "select"
    /\ audioQ # <<>>
    /\ audioQ' = Tail(audioQ)
    /\ IF Buffered(vendor)
       THEN LET all    == buffer \o Head(audioQ)
                chunks == AddChunks(all, MaxBytes)
            IN /\ buffer' = AddRest(all, MaxBytes)
               /\ \E sent \in 0..Len(chunks) :
                    IF sent = Len(chunks)
                    THEN /\ wire' = wire \o [i \in 1..sent |-> Binary(chunks[i], "ok")]
                         /\ pc' = "select"
                         /\ pending' = Idle
                    ELSE /\ wire' = wire \o [i \in 1..sent |-> Binary(chunks[i], "ok")]
                                         \o <<Binary(chunks[sent + 1], "err")>>
                         /\ pc' = "emit"
                         /\ pending' = Sending(error_event("SEND_ERROR"),
                                               AfterSendError(vendor),
                                               AfterSendError(vendor))
       ELSE /\ UNCHANGED buffer
            /\ \E ok \in BOOLEAN :
                 /\ wire' = Append(wire, Binary(Head(audioQ), IF ok THEN "ok" ELSE "err"))
                 /\ IF ok
                    THEN pc' = "select" /\ pending' = Idle
                    ELSE /\ pc' = "emit"
                         /\ pending' = Sending(error_event("SEND_ERROR"),
                                               AfterSendError(vendor),
                                               AfterSendError(vendor))
    /\ UNCHANGED <<vendor, api, submitted, received, emitted, rxCount,
                   audioTx, eventRx, closeTx, closeSeen, conn, closeAt, lastCall>>

\* select! branch: msg = ws.recv()
WsBranch ==
    /\ pc = "select"
    /\ InputsLeft
    /\ \E kind \in SessionKinds :
         LET k  == Len(received) + 1
             ev == parse_streaming_message(vendor, kind, k)
         IN /\ received' = Append(received, kind)
            /\ CASE kind \in TextKinds ->
                      IF ev = NoEvent
                      THEN pc' = "select" /\ pending' = Idle
                      ELSE pc' = "emit" /\ pending' = Sending(ev, "select", "done")
                 [] kind \in {"close", "eof"} ->
                      pc' = "emit" /\ pending' = Sending(close_event, "done", "done")
                 [] kind = "err" ->
                      /\ pc' = "emit"
                      /\ pending' = Sending(error_event("WEBSOCKET_ERROR"), "done", "done")
                 [] OTHER -> pc' = "select" /\ pending' = Idle
    /\ UNCHANGED <<vendor, api, audioQ, submitted, buffer, wire, emitted,
                   rxCount, audioTx, eventRx, closeTx, closeSeen, conn,
                   closeAt, lastCall>>

\* the transport operations of the close branch, in program order
CloseOpsTerminateTwice(v, buf) ==
    (IF Buffered(v)
     THEN [i \in 1..Len(FlushChunk(buf, MinBytes)) |->
              Binary(FlushChunk(buf, MinBytes)[i], "ignored")]
     ELSE <<>>)
    \o <<Text(TerminationMessage(v), "ignored"),
         Text(TerminationMessage(v), "ignored"), WsClose("ignored")>>
CloseOpsTerminateFirst(v, buf) ==
    <<Text(TerminationMessage(v), "ignored")>>
    \o (IF Buffered(v)
        THEN [i \in 1..Len(FlushChunk(buf, MinBytes)) |->
                 Binary(FlushChunk(buf, MinBytes)[i], "ignored")]
        ELSE <<>>)
    \o <<WsClose("ignored")>>
CloseOps(v, buf) ==
    (IF Buffered(v)
     THEN [i \in 1..Len(FlushChunk(buf, MinBytes)) |->
              Binary(FlushChunk(buf, MinBytes)[i], "ignored")]
     ELSE <<>>)
    \o <<Text(TerminationMessage(v), "ignored"), WsClose("ignored")>>

\* the future `&mut close_rx` is ready: close_tx has sent () or has been
\* dropped (Err(RecvError), which the pattern `_` matches as well)
close_rx_ready_on_send(tx) == tx = "fired"
close_rx_ready(tx) == tx # "held"

\* select! branch: _ = &mut close_rx
CloseBranch ==
    /\ pc = "select"
    /\ close_rx_ready(closeTx)
    /\ wire' = wire \o CloseOps(vendor, buffer)
    /\ buffer' = <<>>
    /\ closeSeen' = TRUE
    /\ pc' = "emit"
    /\ pending' = Sending(close_event, "done", "done")
    /\ UNCHANGED <<vendor, api, audioQ, submitted, received, emitted, rxCount,
                   audioTx, eventRx, closeTx, conn, closeAt, lastCall>>

-----------------------------------------------------------------------------
(* The caller                                                              *)

\* StreamingSession::send_audio / StreamingSessionHandle::send_audio:
\* audio_tx.send(data).await, Err once audio_rx is dropped
SendAudio ==
    /\ audioTx = "held"
    /\ \E n \in ChunkLens :
         IF TaskEnded
         THEN /\ lastCall' = Call("send_audio", send_result(TRUE), TRUE)
              /\ UNCHANGED <<audioQ, submitted>>
         ELSE /\ Len(audioQ) < ChanCap
              /\ InputsLeft
              /\ audioQ' = Append(audioQ, Bytes(NextByte, n))
              /\ submitted' = Append(submitted, Bytes(NextByte, n))
              /\ lastCall' = Call("send_audio", send_result(FALSE), FALSE)
    /\ UNCHANGED <<vendor, api, pc, pending, buffer, wire, received, emitted,
                   rxCount, audioTx, eventRx, closeTx, closeSeen, conn, closeAt>>

\* event_rx.recv() by the caller
RecvEvent ==
    /\ eventRx = "held"
    /\ EventQueueLen > 0
    /\ rxCount' = rxCount + 1
    /\ UNCHANGED <<vendor, api, pc, pending, audioQ, submitted, buffer, wire,
                   received, emitted, audioTx, eventRx, closeTx, closeSeen,
                   conn, closeAt, lastCall>>

\* StreamingSession::close(self): close_tx.send(()), Err when close_rx is
\* dropped; the rest of the consumed session is dropped when close returns
SessionClose ==
    /\ api = "session"
    /\ closeTx = "held"
    /\ audioTx = "held"
    /\ eventRx = "held"
    /\ closeTx' = "fired"
    /\ audioTx' = "closing"
    /\ eventRx' = "closing"
    /\ closeAt' = TaskPhase
    /\ lastCall' = Call("close", send_result(TaskEnded), TaskEnded)
    /\ UNCHANGED <<vendor, api, pc, pending, audioQ, submitted, buffer, wire,
                   received, emitted, rxCount, closeSeen, conn>>

\* end of StreamingSession::close: audio_tx and event_rx go out of scope
SessionCloseReturn ==
    /\ audioTx = "closing"
    /\ eventRx = "closing"
    /\ audioTx' = "dropped"
    /\ eventRx' = "dropped"
    /\ UNCHANGED <<vendor, api, pc, pending, audioQ, submitted, buffer, wire,
                   received, emitted, rxCount, closeTx, closeSeen, conn,
                   closeAt, lastCall>>

\* StreamingSessionHandle::close(&mut self): takes close_tx if still there
HandleClose ==
    /\ api = "handle"
    /\ audioTx = "held"
    /\ IF closeTx = "held"
       THEN /\ closeTx' = "fired"
            /\ closeAt' = TaskPhase
            /\ lastCall' = Call("close", send_result(TaskEnded), TaskEnded)
       ELSE /\ UNCHANGED <<closeTx, closeAt>>
            /\ lastCall' = Call("close_again", repeat_close_result, TaskEnded)
    /\ UNCHANGED <<vendor, api, pc, pending, audioQ, submitted, buffer, wire,
                   received, emitted, rxCount, audioTx, eventRx, closeSeen, conn>>

\* the caller drops what it holds without calling close
DropSession ==
    /\ audioTx = "held"
    /\ closeTx = "held"
    /\ audioTx' = "dropped"
    /\ eventRx' = "dropped"
    /\ closeTx' = "dropped"
    /\ UNCHANGED <<vendor, api, pc, pending, audioQ, submitted, buffer, wire,
                   received, emitted, rxCount, closeSeen, conn, closeAt, lastCall>>

-----------------------------------------------------------------------------
(* VoiceRouter (router.rs)                                                 *)

\* TranscriptionProvider, cut to the three built-in adapters and one
\* provider without a built-in adapter
Providers == {"Gladia", "AssemblyAI", "Deepgram", "AzureStt"}
BuiltIn == {"Gladia", "AssemblyAI", "Deepgram"}
Strategies == {"Explicit", "Default", "RoundRobin"}

Perms(S) == {f \in [1..Cardinality(S) -> S] : Range(f) = S}

Callers == 1..NCallers

NoSelect == [pref |-> "None", out |-> "none", provider |-> "None", listed |-> {}]

Selected(pref, p) ==
    [pref |-> pref, out |-> "Ok", provider |-> p, listed |-> {}]
InvalidConfigFallsBack(pref, registered) ==
    [pref |-> pref, out |-> "Ok", provider |-> "Deepgram", listed |-> {}]
InvalidConfigUnlisted(pref, registered) ==
    [pref |-> pref, out |-> "InvalidConfig", provider |-> "None", listed |-> {}]
InvalidConfig(pref, registered) ==
    [pref |-> pref, out |-> "InvalidConfig", provider |-> "None", listed |-> registered]
Panicked(pref) ==
    [pref |-> pref, out |-> "Panic", provider |-> "None", listed |-> {}]

\* a configuration the caller may hand to VoiceRouter::new
RouterInit ==
    /\ rphase = "config"
    /\ newPanic = "None"
    /\ cfgProviders \in SUBSET Providers
    /\ cfgKeys \in SUBSET cfgProviders
    /\ strategy \in Strategies
    /\ defaultProvider \in Providers \cup {"None"}
    /\ adapters = {}
    /\ order = <<>>
    /\ rrIndex = 0
    /\ rrLog = <<>>
    /\ rrBase = 0
    /\ lastSelect = NoSelect

CallersInit ==
    /\ cpc = [c \in Callers |-> "idle"]
    /\ cidx = [c \in Callers |-> 0]
    /\ selCount = [p \in Providers |-> 0]
    /\ handed = <<>>

\* the router no action of a session or poll specification touches
RouterIdle ==
    /\ rphase = "config"
    /\ newPanic = "None"
    /\ cfgProviders = {}
    /\ cfgKeys = {}
    /\ strategy = "Default"
    /\ defaultProvider = "None"
    /\ adapters = {}
    /\ order = <<>>
    /\ rrIndex = 0
    /\ rrLog = <<>>
    /\ rrBase = 0
    /\ lastSelect = NoSelect
    /\ CallersInit

\* VoiceRouter::new: panics on an empty provider map; auto-selects the first
\* configured provider as default; registers the built-in adapters whose
\* initialize succeeded (api_key not empty)
providers_is_empty_never(providers) == FALSE
providers_is_empty(providers) == providers = {}

RouterNew ==
    /\ rphase = "config"
    /\ IF providers_is_empty(cfgProviders)
       THEN /\ rphase' = "panicked"
            /\ newPanic' = "VoiceRouter requires at least one provider configuration"
            /\ UNCHANGED <<defaultProvider, adapters, order>>
       ELSE /\ rphase' = "ready"
            /\ UNCHANGED newPanic
            /\ IF strategy = "Default" /\ defaultProvider = "None"
               THEN defaultProvider' \in cfgProviders
               ELSE UNCHANGED defaultProvider
            /\ adapters' = cfgKeys \cap BuiltIn
            /\ order' \in Perms(cfgKeys \cap BuiltIn)
    /\ UNCHANGED <<cfgProviders, cfgKeys, strategy, rrIndex, rrLog, rrBase,
                   lastSelect>>

\* self.config.providers.contains_key(&provider)
providers_contains_key_always(providers, p) == TRUE
providers_contains_key(providers, p) == p \in providers

\* VoiceRouter::register_adapter: inserts only for a configured provider;
\* an insert of a new key may change the iteration order of the map
RegisterAdapter(p) ==
    /\ rphase = "ready"
    /\ IF providers_contains_key(cfgProviders, p) /\ p \notin adapters
       THEN /\ Cardinality(adapters \ (cfgKeys \cap BuiltIn)) < MaxRegistrations
            /\ adapters' = adapters \cup {p}
            /\ order' \in Perms(adapters \cup {p})
            /\ rrLog' = <<>>
            /\ rrBase' = rrIndex
       ELSE UNCHANGED <<adapters, order, rrLog, rrBase>>
    /\ UNCHANGED <<rphase, newPanic, cfgProviders, cfgKeys, strategy,
                   defaultProvider, rrIndex, lastSelect>>

\* fetch_add(1, SeqCst): the value the counter takes
NextIndexStuck(i) == i
NextIndex(i) == i + 1

\* providers[index % providers.len()]
RoundRobinPickNext(ord, index) == ord[((index + 1) % Len(ord)) + 1]
RoundRobinPick(ord, index) == ord[(index % Len(ord)) + 1]

\* VoiceRouter::select_provider, called by one caller at a time
SelectProvider(pref) ==
    /\ rphase = "ready"
    /\ rrIndex < MaxCalls
    /\ IF pref # "None"
       THEN /\ lastSelect' = IF pref \in adapters
                             THEN Selected(pref, pref)
                             ELSE InvalidConfig(pref, adapters)
            /\ UNCHANGED <<rrIndex, rrLog>>
       ELSE CASE strategy = "Explicit" ->
                   /\ lastSelect' = InvalidConfig(pref, {})
                   /\ UNCHANGED <<rrIndex, rrLog>>
              [] strategy = "RoundRobin" ->
                   /\ rrIndex' = NextIndex(rrIndex)
                   /\ IF order = <<>>
                      THEN /\ lastSelect' = Panicked(pref)
                           /\ UNCHANGED rrLog
                      ELSE /\ lastSelect' = Selected(pref, RoundRobinPick(order, rrIndex))
                           /\ rrLog' = Append(rrLog, RoundRobinPick(order, rrIndex))
              [] strategy = "Default" ->
                   /\ lastSelect' = IF defaultProvider = "None"
                                    THEN InvalidConfig(pref, {})
                                    ELSE Selected(pref, defaultProvider)
                   /\ UNCHANGED <<rrIndex, rrLog>>
    /\ UNCHANGED <<rphase, newPanic, cfgProviders, cfgKeys, strategy,
                   defaultProvider, adapters, order, rrBase>>

RouterNext ==
    \/ RouterNew
    \/ \E p \in Providers : RegisterAdapter(p)
    \/ \E pref \in Providers \cup {"None"} : SelectProvider(pref)

-----------------------------------------------------------------------------
(* select_provider(None) under RoundRobin, called concurrently (&self)     *)

\* let providers: Vec<_> = self.adapters.keys().collect();
Collect(c) ==
    /\ rphase = "ready"
    /\ strategy = "RoundRobin"
    /\ cpc[c] = "idle"
    /\ Len(handed) + Cardinality({d \in Callers : cpc[d] = "collected"}) < MaxCalls
    /\ cpc' = [cpc EXCEPT ![c] = "collected"]
    /\ UNCHANGED <<cidx, selCount, handed, rrIndex>>

\* let index = self.round_robin_index.fetch_add(1, Ordering::SeqCst);
FetchAdd(c) ==
    /\ cpc[c] = "collected"
    /\ cidx' = [cidx EXCEPT ![c] = rrIndex]
    /\ rrIndex' = NextIndex(rrIndex)
    /\ handed' = Append(handed, rrIndex)
    /\ cpc' = [cpc EXCEPT ![c] = "fetched"]
    /\ UNCHANGED selCount

\* Ok(*providers[index % providers.len()]); the remainder panics when no
\* adapter is registered
Return(c) ==
    /\ cpc[c] = "fetched"
    /\ IF order = <<>>
       THEN /\ cpc' = [cpc EXCEPT ![c] = "panicked"]
            /\ UNCHANGED selCount
       ELSE /\ cpc' = [cpc EXCEPT ![c] = "idle"]
            /\ selCount' = [selCount EXCEPT ![RoundRobinPick(order, cidx[c])] = @ + 1]
    /\ UNCHANGED <<cidx, handed, rrIndex>>

CallersNext ==
    \E c \in Callers : Collect(c) \/ FetchAdd(c) \/ Return(c)

-----------------------------------------------------------------------------
(* poll_for_completion (adapters/assemblyai.rs, adapters/gladia.rs)        *)

MAX_ATTEMPTS == 120

PollVendors == {"AssemblyAI", "Gladia"}

\* AaiStatus / GladiaStatus
Statuses(v) ==
    IF v = "AssemblyAI" THEN {"Queued", "Processing", "Completed", "Error"}
                        ELSE {"Queued", "Processing", "Done", "Error"}

\* what one status fetch yields: the job as the vendor reports it, or a
\* failed request
Job(status, error) == [ok |-> TRUE, status |-> status, error |-> error]
FetchFailed == [ok |-> FALSE, status |-> "none", error |-> "request failed"]
NotFetched == [ok |-> FALSE, status |-> "none", error |-> "None"]

Fetched(v) ==
    {Job(s, "None") : s \in Statuses(v)} \cup {Job("Error", "vendor message")}
        \cup {FetchFailed}

\* Option<TranscriptionData>: the status and whether the text, words,
\* utterances, speakers and summary are taken from the vendor's response
\* ("vendor") or are the empty values the code writes itself ("empty")
NoData == [present |-> FALSE, status |-> "none", payload |-> "none"]
Data(status, payload) == [present |-> TRUE, status |-> status, payload |-> payload]

Response(success, v, data, code, message, raw) ==
    [success |-> success, provider |-> v, data |-> data,
     error |-> [code |-> code, message |-> message], raw |-> raw]

\* TranscriptionStatus of a vendor status
UnifiedStatus(status) == IF status = "Done" THEN "Completed" ELSE status

normalize_response_keeps_data(v, job) ==
    Response(job.status # "Error", v, Data(UnifiedStatus(job.status), "vendor"),
             IF job.status = "Error" THEN "TRANSCRIPTION_ERROR" ELSE "None",
             <<>>, "Some")
normalize_response(v, job) ==
    IF v = "Deepgram"
    THEN Response(TRUE, v, Data("Completed", "vendor"), "None", <<>>, "Some")
    ELSE IF job.status = "Error"
    THEN Response(FALSE, v, NoData, "TRANSCRIPTION_ERROR",
                  IF v = "AssemblyAI" /\ job.error # "None"
                  THEN <<job.error>> ELSE <<"Transcription failed">>,
                  "Some")
    ELSE Response(TRUE, v, Data(UnifiedStatus(job.status), "vendor"),
                  "None", <<>>, "Some")

polling_timeout(v) ==
    Response(FALSE, v, NoData, "POLLING_TIMEOUT",
             <<"Transcription did not complete after", MAX_ATTEMPTS, "attempts">>,
             "None")

NoResponse == Response(FALSE, "none", NoData, "None", <<>>, "None")
Ok(resp) == [tag |-> "Ok", resp |-> resp, err |-> "None"]
Err(e) == [tag |-> "Err", resp |-> NoResponse, err |-> e]
Running == [tag |-> "running", resp |-> NoResponse, err |-> "None"]

\* the match on response.status
IsTerminalCompletedOnly(v, status) == status \in {"Completed", "Done"}
IsTerminal(v, status) ==
    IF v = "AssemblyAI" THEN status \in {"Completed", "Error"}
                        ELSE status \in {"Done", "Error"}

\* the range 0..MAX_ATTEMPTS still has an element for the loop variable
InRangeInclusive(i) == i <= MAX_ATTEMPTS
InRange(i) == i < MAX_ATTEMPTS

PollInit ==
    /\ pollVendor \in PollVendors
    /\ apiConfig \in BOOLEAN
    /\ ppc = "start"
    /\ attempt = 0
    /\ fetches = 0
    /\ fetchLog = <<>>
    /\ lastFetch = NotFetched
    /\ pollResult = Running

PollIdle ==
    /\ pollVendor = "AssemblyAI"
    /\ apiConfig = FALSE
    /\ ppc = "start"
    /\ attempt = 0
    /\ fetches = 0
    /\ fetchLog = <<>>
    /\ lastFetch = NotFetched
    /\ pollResult = Running

\* after the loop: the timeout response
Exhausted ==
    /\ ppc' = "done"
    /\ pollResult' = Ok(polling_timeout(pollVendor))

\* api_config check and entry into the loop
PollStart ==
    /\ ppc = "start"
    /\ IF ~apiConfig
       THEN /\ ppc' = "done"
            /\ pollResult' = Err("NotInitialized")
       ELSE IF InRange(attempt)
            THEN ppc' = "fetch" /\ UNCHANGED pollResult
            ELSE Exhausted
    /\ UNCHANGED <<pollVendor, apiConfig, attempt, fetches, fetchLog, lastFetch>>

\* one get_transcript / get_pre_recorded_job call and the match on its status
Fetch ==
    /\ ppc = "fetch"
    /\ \E r \in Fetched(pollVendor) :
          /\ fetches' = fetches + 1
          /\ lastFetch' = r
          /\ fetchLog' = IF Len(fetchLog) < MaxLogged
                         THEN Append(fetchLog, r) ELSE fetchLog
          /\ IF ~r.ok
             THEN /\ ppc' = "done"
                  /\ pollResult' = Err("ProviderError API_ERROR")
             ELSE IF IsTerminal(pollVendor, r.status)
                  THEN /\ ppc' = "done"
                       /\ pollResult' = Ok(normalize_response(pollVendor, r))
                  ELSE /\ ppc' = "sleep"
                       /\ UNCHANGED pollResult
    /\ UNCHANGED <<pollVendor, apiConfig, attempt>>

\* tokio::time::sleep(POLL_INTERVAL_MS) returns and the loop advances
Sleep ==
    /\ ppc = "sleep"
    /\ attempt' = attempt + 1
    /\ IF InRange(attempt + 1)
       THEN ppc' = "fetch" /\ UNCHANGED pollResult
       ELSE Exhausted
    /\ UNCHANGED <<pollVendor, apiConfig, fetches, fetchLog, lastFetch>>

PollNext == PollStart \/ Fetch \/ Sleep

-----------------------------------------------------------------------------
(* transcribe and get_transcript of an adapter                             *)

AudioInputs == {"Url", "Bytes", "Stream"}

\* what the submit call yields: the request failed, the job was created
\* (AssemblyAI, Gladia), or one of the two variants of Deepgram's answer
SubmitOutcomes(v) ==
    IF v = "Deepgram"
    THEN {"failed", "ListenV1Response", "ListenV1AcceptedResponse"}
    ELSE {"failed", "created"}

\* the response built without normalize_response when the vendor only
\* acknowledged the job
accepted_status(v) == IF v = "Deepgram" THEN "Processing" ELSE "Queued"
accepted_response(v) ==
    Response(TRUE, v, Data(accepted_status(v), "empty"), "None", <<>>, "Some")

ApiError == Err("ProviderError API_ERROR")

BatchInit ==
    /\ bOp \in {"transcribe", "get_transcript"}
    /\ bInput \in AudioInputs
    /\ bWebhook \in BOOLEAN
    /\ bpc = "start"
    /\ submits = 0
    /\ bResult = Running

BatchIdle ==
    /\ bOp = "transcribe"
    /\ bInput = "Url"
    /\ bWebhook = FALSE
    /\ bpc = "start"
    /\ submits = 0
    /\ bResult = Running

\* transcribe: the api_config check and the match on the AudioInput
TranscribeStart ==
    /\ bpc = "start"
    /\ bOp = "transcribe"
    /\ IF ~apiConfig
       THEN bpc' = "done" /\ bResult' = Err("NotInitialized")
       ELSE IF bInput # "Url"
            THEN bpc' = "done" /\ bResult' = Err("NotSupported")
            ELSE bpc' = "submit" /\ UNCHANGED bResult
    /\ UNCHANGED <<bOp, bInput, bWebhook, submits, pollVars>>

\* transcribe: the submit call and what follows it up to the poll
Submit ==
    /\ bpc = "submit"
    /\ submits' = submits + 1
    /\ \E r \in SubmitOutcomes(pollVendor) :
          IF r = "failed"
          THEN bpc' = "done" /\ bResult' = ApiError
          ELSE IF r = "ListenV1Response"
          THEN /\ bpc' = "done"
               /\ bResult' = Ok(normalize_response(pollVendor, Job("Completed", "None")))
          ELSE IF r = "ListenV1AcceptedResponse" \/ bWebhook
          THEN bpc' = "done" /\ bResult' = Ok(accepted_response(pollVendor))
          ELSE bpc' = "poll" /\ UNCHANGED bResult
    /\ UNCHANGED <<bOp, bInput, bWebhook, pollVars>>

\* transcribe: self.poll_for_completion(&id).await runs
TranscribePoll ==
    /\ bpc = "poll"
    /\ PollNext
    /\ UNCHANGED batchVars

\* transcribe returns what poll_for_completion returned
TranscribeReturn ==
    /\ bpc = "poll"
    /\ ppc = "done"
    /\ bpc' = "done"
    /\ bResult' = pollResult
    /\ UNCHANGED <<bOp, bInput, bWebhook, submits, pollVars>>

\* get_transcript: one fetch, normalized whatever its status (NotSupported
\* in Deepgram, which does not look at api_config)
GetTranscript ==
    /\ bpc = "start"
    /\ bOp = "get_transcript"
    /\ bpc' = "done"
    /\ IF pollVendor = "Deepgram"
       THEN bResult' = Err("NotSupported") /\ UNCHANGED <<fetches, lastFetch>>
       ELSE IF ~apiConfig
       THEN bResult' = Err("NotInitialized") /\ UNCHANGED <<fetches, lastFetch>>
       ELSE \E r \in Fetched(pollVendor) :
              /\ fetches' = fetches + 1
              /\ lastFetch' = r
              /\ bResult' = IF r.ok THEN Ok(normalize_response(pollVendor, r))
                                    ELSE ApiError
    /\ UNCHANGED <<bOp, bInput, bWebhook, submits, pollVendor, apiConfig, ppc,
                   attempt, fetchLog, pollResult>>

BatchNext ==
    \/ TranscribeStart
    \/ Submit
    \/ TranscribePoll
    \/ TranscribeReturn
    \/ GetTranscript

-----------------------------------------------------------------------------
(* An AudioBuffer driven directly (adapters/streaming.rs)                  *)

BufCall(op, ret) == [op |-> op, ret |-> ret]

\* AudioBuffer::new(min_bytes, max_bytes); max_bytes = 0 makes add loop
\* forever and is left out
BufNew ==
    /\ abMin \in 0..MaxMinBytes
    /\ abMax \in 1..MaxMaxBytes
    /\ abBuf = <<>>
    /\ abIn = <<>>
    /\ abOut = <<>>
    /\ abLast = BufCall("new", <<>>)
    /\ abAdds = 0
    /\ abFlushes = 0

BufIdle ==
    /\ abMin = 0
    /\ abMax = 1
    /\ abBuf = <<>>
    /\ abIn = <<>>
    /\ abOut = <<>>
    /\ abLast = BufCall("new", <<>>)
    /\ abAdds = 0
    /\ abFlushes = 0

\* AudioBuffer::add(data)
BufAdd ==
    /\ abAdds < MaxAdds
    /\ \E n \in 0..MaxAddLen :
         LET data == Bytes(Len(abIn) + 1, n)
             ext == abBuf \o data
         IN /\ abIn' = abIn \o data
            /\ abBuf' = AddRest(ext, abMax)
            /\ abOut' = abOut \o AddChunks(ext, abMax)
            /\ abLast' = BufCall("add", AddChunks(ext, abMax))
    /\ abAdds' = abAdds + 1
    /\ UNCHANGED <<abMin, abMax, abFlushes>>

\* AudioBuffer::flush()
BufFlush ==
    /\ abFlushes < MaxFlushes
    /\ abOut' = abOut \o FlushChunk(abBuf, abMin)
    /\ abLast' = BufCall("flush", FlushChunk(abBuf, abMin))
    /\ abBuf' = <<>>
    /\ abFlushes' = abFlushes + 1
    /\ UNCHANGED <<abMin, abMax, abIn, abAdds>>

BufNext == BufAdd \/ BufFlush

-----------------------------------------------------------------------------
(* parse_streaming_message, field by field                                 *)

\* the shape of one text message: which vendor message it is, the vendor's
\* final flag (is_final, end_of_turn) and how many words it carries
StreamMessages == [kind : TextKinds, final : BOOLEAN, nwords : 0..MaxWords]

\* Option<T>
None == [some |-> FALSE]
Some(x) == [some |-> TRUE, val |-> x]

\* a StreamEvent: is_final is an Option<bool>, utterance is whether the
\* Option<Utterance> is Some, words is an Option of the number of words
NotParsed == [type |-> "NotParsed"]
NoStreamEvent == [type |-> "None"]
StreamEvent(t, is_final, utterance, words) ==
    [type |-> t, is_final |-> is_final, utterance |-> utterance, words |-> words]

\* `if words.is_empty() { None } else { Some(words) }`
NonEmptyWords(n) == IF n = 0 THEN None ELSE Some(n)

\* the fields AssemblyAIAdapter::parse_streaming_message writes
AssemblyAIStreamEvent(msg) ==
    LET t == ParseAssemblyAI(msg.kind, 0).type IN
    CASE t = "Error"      -> StreamEvent(t, None, FALSE, None)
      [] t = "Metadata"   -> StreamEvent(t, None, FALSE, None)
      [] t = "Transcript" -> StreamEvent(t, Some(msg.final), FALSE, NonEmptyWords(msg.nwords))
      [] OTHER            -> NoStreamEvent

\* the fields DeepgramAdapter::parse_streaming_message writes; the words of a
\* Results message are mapped as they are, an empty list included
DeepgramStreamEvent(msg) ==
    LET t == ParseDeepgram(msg.kind, 0).type IN
    CASE t = "Transcript" -> StreamEvent(t, Some(msg.final), FALSE, Some(msg.nwords))
      [] t = "Utterance"  -> StreamEvent(t, Some(TRUE), FALSE, None)
      [] t = "Metadata"   -> StreamEvent(t, None, FALSE, None)
      [] OTHER            -> NoStreamEvent

\* the fields GladiaAdapter::parse_streaming_message writes; the words of an
\* Utterance message go into the utterance
GladiaStreamEvent(msg) ==
    LET t == ParseGladia(msg.kind, 0).type IN
    CASE t = "Transcript" -> StreamEvent(t, Some(msg.final), FALSE, NonEmptyWords(msg.nwords))
      [] t = "Utterance"  -> StreamEvent(t, Some(TRUE), TRUE, None)
      [] t = "Metadata"   -> StreamEvent(t, None, FALSE, None)
      [] t = "Error"      -> StreamEvent(t, None, FALSE, None)
      [] OTHER            -> NoStreamEvent

stream_event(v, msg) ==
    CASE v = "AssemblyAI" -> AssemblyAIStreamEvent(msg)
      [] v = "Deepgram"   -> DeepgramStreamEvent(msg)
      [] v = "Gladia"     -> GladiaStreamEvent(msg)

ParseInit ==
    /\ psVendor \in Vendors
    /\ psMsg \in StreamMessages
    /\ psEvent = NotParsed

ParseIdle ==
    /\ psVendor = "Deepgram"
    /\ psMsg = [kind |-> "unknown", final |-> FALSE, nwords |-> 0]
    /\ psEvent = NotParsed

\* parse_streaming_message(text) is called on the message
ParseMessage ==
    /\ psEvent = NotParsed
    /\ psEvent' = stream_event(psVendor, psMsg)
    /\ UNCHANGED <<psVendor, psMsg>>

-----------------------------------------------------------------------------
(* Milliseconds to seconds: `ms as f64 / 1000.0` in IEEE-754 doubles       *)

\* A double is 53 significant bits times a power of two.  For an integer
\* 0 < ms < 2^31 the quotient ms / 1000 lies in a binade whose unit is
\* 2^-k, where k = Exponent(ms) is the one value with
\* 2^52 <= ms * 2^k / 1000 < 2^53.  The division returns the multiple of
\* 2^-k nearest to ms / 1000: (ms * 2^k + d) / (1000 * 2^k), where d is the
\* distance from ms * 2^k to the nearest multiple of 1000.  Only ms, k and d
\* are kept, which needs no integer wider than 32 bits.

RECURSIVE BitLength(_)
BitLength(n) == IF n = 0 THEN 0 ELSE 1 + BitLength(n \div 2)

RECURSIVE Pow2(_)
Pow2(e) == IF e = 0 THEN 1 ELSE 2 * Pow2(e - 1)

RECURSIVE Pow2Mod1000(_)
Pow2Mod1000(e) == IF e = 0 THEN 1 ELSE (2 * Pow2Mod1000(e - 1)) % 1000

\* 2^(k + BitLength(ms) - 54): half the spacing of the doubles next to ms,
\* counted in the unit of d (thousandths of 2^-k)
HalfUlp(ms) == IF 1024 * ms >= 1000 * Pow2(BitLength(ms)) THEN 256 ELSE 512

Exponent(ms) == 54 - BitLength(ms) + (IF HalfUlp(ms) = 256 THEN 8 ELSE 9)

\* round to nearest: the remainder r of ms * 2^k by 1000 is never 500, as
\* 2^k is a multiple of 8 and 500 is not
TruncatedError(r) == -r
NearestError(r) == IF r < 500 THEN -r ELSE 1000 - r

\* ms as f64 / 1000.0
Seconds(ms) ==
    IF ms = 0 THEN [ms |-> 0, k |-> 0, d |-> 0]
    ELSE [ms |-> ms, k |-> Exponent(ms),
          d |-> NearestError((ms * Pow2Mod1000(Exponent(ms))) % 1000)]

IsPow2(n) == n = Pow2(BitLength(n) - 1)

\* x * 1000.0: the exact product is ms + d / 2^k, rounded to the nearest
\* double (ties to the even one, which is ms); the result is given as ms and
\* how many doubles it lies above or below ms.  Below a power of two the
\* doubles are spaced half as wide.
TimesThousand(x) ==
    [ms |-> x.ms,
     ulps |-> IF x.ms = 0 THEN 0
              ELSE IF x.d >= 0
              THEN (IF x.d > HalfUlp(x.ms) THEN 1 ELSE 0)
              ELSE IF IsPow2(x.ms)
              THEN (IF -x.d > HalfUlp(x.ms) \div 2 THEN -1 ELSE 0)
              ELSE (IF -x.d > HalfUlp(x.ms) THEN -1 ELSE 0)]

\* the double of an integer
Exactly(ms) == [ms |-> ms, ulps |-> 0]

\* x <= y for two quotients: x * 1000 = ms + d / 2^k with |d / 2^k| < 1/2,
\* so different ms decide the order, and equal ms give equal doubles
SecondsLeq(x, y) == x.ms < y.ms \/ (x.ms = y.ms /\ x.d <= y.d)

\* AssemblyAIAdapter::map_word, map_utterance and the words of a streaming
\* Turn: start and end are divided by 1000.0, each on its own
NotMapped == [mapped |-> FALSE]
map_word(start, end) ==
    [mapped |-> TRUE, start |-> Seconds(start), end |-> Seconds(end)]
map_utterance(start, end) ==
    [mapped |-> TRUE, start |-> Seconds(start), end |-> Seconds(end)]
map_turn_word(start, end) ==
    [mapped |-> TRUE, start |-> Seconds(start), end |-> Seconds(end)]

TimeSources == {"map_word", "map_utterance", "Turn"}

\* a word or an utterance of the vendor: a start and an end that lies up to
\* MaxSpanMs later, or earlier by one
TimeInit ==
    /\ twSource \in TimeSources
    /\ twStart \in 0..MaxMs
    /\ twEnd \in {e \in (twStart - 1)..(twStart + MaxSpanMs) : e >= 0}
    /\ twOut = NotMapped

TimeIdle ==
    /\ twSource = "map_word"
    /\ twStart = 0
    /\ twEnd = 0
    /\ twOut = NotMapped

\* the mapper is called on the vendor's word or utterance
MapTimes ==
    /\ twOut = NotMapped
    /\ twOut' = CASE twSource = "map_word"      -> map_word(twStart, twEnd)
                  [] twSource = "map_utterance" -> map_utterance(twStart, twEnd)
                  [] twSource = "Turn"          -> map_turn_word(twStart, twEnd)
    /\ UNCHANGED <<twSource, twStart, twEnd>>

\* no pure function is being checked
-----------------------------------------------------------------------------
(* Audio encodings (audio_encoding.rs, adapters/streaming.rs)              *)

\* audio_encoding::AudioEncoding
Encodings ==
    {"Linear16", "Mulaw", "Alaw", "Flac", "Opus", "Speex", "AmrNb", "AmrWb", "G729"}

\* the support the documentation of AudioEncoding declares for each vendor
DeclaredSupport(v) ==
    CASE v = "Gladia"     -> {"Linear16", "Mulaw", "Alaw"}
      [] v = "Deepgram"   -> {"Linear16", "Mulaw", "Flac", "Opus", "Speex",
                              "AmrNb", "AmrWb", "G729"}
      [] v = "AssemblyAI" -> {"Linear16"}

\* AudioEncoding::as_str
as_str(enc) ==
    CASE enc = "Linear16" -> "linear16"
      [] enc = "Mulaw"    -> "mulaw"
      [] enc = "Alaw"     -> "alaw"
      [] enc = "Flac"     -> "flac"
      [] enc = "Opus"     -> "opus"
      [] enc = "Speex"    -> "speex"
      [] enc = "AmrNb"    -> "amr-nb"
      [] enc = "AmrWb"    -> "amr-wb"
      [] enc = "G729"     -> "g729"

\* audio_encoding::AudioEncoding::from_str
encoding_from_str(str) ==
    CASE str \in {"linear16", "pcm_s16le", "pcm16", "pcm"} -> "Linear16"
      [] str \in {"mulaw", "pcm_mulaw"} -> "Mulaw"
      [] str \in {"alaw", "pcm_alaw"}   -> "Alaw"
      [] str = "flac"   -> "Flac"
      [] str = "opus"   -> "Opus"
      [] str = "speex"  -> "Speex"
      [] str = "amr-nb" -> "AmrNb"
      [] str = "amr-wb" -> "AmrWb"
      [] str = "g729"   -> "G729"
      [] OTHER          -> "None"

map_to_gladia(enc) ==
    CASE enc = "Linear16" -> "wav/pcm"
      [] enc = "Mulaw"    -> "wav/ulaw"
      [] enc = "Alaw"     -> "wav/alaw"
      [] OTHER            -> "None"

map_to_deepgram(enc) ==
    CASE enc = "Linear16" -> "linear16"
      [] enc = "Mulaw"    -> "mulaw"
      [] enc = "Flac"     -> "flac"
      [] enc = "Opus"     -> "opus"
      [] enc = "Speex"    -> "speex"
      [] enc = "AmrNb"    -> "amr-nb"
      [] enc = "AmrWb"    -> "amr-wb"
      [] enc = "G729"     -> "g729"
      [] OTHER            -> "None"

map_to_assemblyai(enc) ==
    CASE enc = "Linear16" -> "pcm_s16le"
      [] enc = "Mulaw"    -> "pcm_mulaw"
      [] enc = "Alaw"     -> "pcm_alaw"
      [] OTHER            -> "None"

map_to(v, enc) ==
    CASE v = "Gladia"     -> map_to_gladia(enc)
      [] v = "Deepgram"   -> map_to_deepgram(enc)
      [] v = "AssemblyAI" -> map_to_assemblyai(enc)

\* the `supported` text of the error message, as the set of names it lists
SupportedText(v) ==
    CASE v = "Gladia"     -> {"linear16", "mulaw", "alaw"}
      [] v = "Deepgram"   -> {"linear16", "mulaw", "flac", "opus", "speex",
                              "amr-nb", "amr-wb", "g729"}
      [] v = "AssemblyAI" -> {"linear16", "mulaw", "alaw"}

\* a result: the vendor token (or "unit", or "None" when no encoding is
\* sent), or an error with the value its message names and the encodings
\* its message lists
NotCalled == [ok |-> FALSE, token |-> "not called", names |-> "None", supported |-> {}]
EncOk(token) == [ok |-> TRUE, token |-> token, names |-> "None", supported |-> {}]
EncErr(names, supported) ==
    [ok |-> FALSE, token |-> "None", names |-> names, supported |-> supported]

map_encoding_to_provider(enc, v) ==
    IF map_to(v, enc) # "None"
    THEN EncOk(map_to(v, enc))
    ELSE EncErr(enc, SupportedText(v))

\* AudioChannels::new admits 1 to 8 channels only
ValidChannels(n) == n >= 1 /\ n <= 8

\* validate_audio_config(encoding, channels, provider)
validate_audio_config(encoding, channels, v) ==
    IF encoding # "None" /\ ~map_encoding_to_provider(encoding, v).ok
    THEN map_encoding_to_provider(encoding, v)
    ELSE IF v = "Gladia" /\ channels.some /\ ~ValidChannels(channels.val)
    THEN EncErr("None", {})
    ELSE IF v = "AssemblyAI" /\ encoding # "None" /\ encoding # "Linear16"
    THEN EncErr("None", {"linear16"})
    ELSE EncOk("unit")

\* adapters::streaming::AudioEncoding::from_str
streaming_from_str(str) ==
    CASE str \in {"linear16", "pcm_s16le", "pcm16", "pcm", "wav/pcm"} -> "Pcm16"
      [] str \in {"mulaw", "pcm_mulaw", "wav/mulaw"} -> "Mulaw"
      [] str \in {"alaw", "pcm_alaw", "wav/alaw"}    -> "Alaw"
      [] str = "opus" -> "Opus"
      [] str = "flac" -> "Flac"
      [] str = "mp3"  -> "Mp3"
      [] OTHER        -> "None"

to_deepgram(enc) ==
    CASE enc = "Pcm16" -> "linear16"
      [] enc = "Mulaw" -> "mulaw"
      [] enc = "Alaw"  -> "alaw"
      [] enc = "Opus"  -> "opus"
      [] enc = "Flac"  -> "flac"
      [] enc = "Mp3"   -> "mp3"

to_assemblyai(enc) ==
    CASE enc = "Pcm16" -> "pcm_s16le"
      [] enc = "Mulaw" -> "pcm_mulaw"
      [] enc = "Alaw"  -> "pcm_alaw"
      [] OTHER         -> "pcm_s16le"

to_gladia(enc) ==
    CASE enc = "Pcm16" -> "wav/pcm"
      [] enc = "Mulaw" -> "wav/mulaw"
      [] enc = "Alaw"  -> "wav/alaw"
      [] OTHER         -> "wav/pcm"

\* the vendor token of the streaming helper for an encoding name:
\* AudioEncoding::from_str, then to_gladia, to_assemblyai or to_deepgram
streaming_token(v, encoding) ==
    IF streaming_from_str(encoding) = "None"
    THEN EncOk("None")
    ELSE EncOk(CASE v = "AssemblyAI" -> to_assemblyai(streaming_from_str(encoding))
                 [] v = "Deepgram"   -> to_deepgram(streaming_from_str(encoding))
                 [] v = "Gladia"     -> to_gladia(streaming_from_str(encoding)))

\* the match of GladiaAdapter::build_streaming_request
to_gladia_request(enc) ==
    CASE enc = "Pcm16" -> "wav/pcm"
      [] enc = "Mulaw" -> "wav/ulaw"
      [] enc = "Alaw"  -> "wav/alaw"
      [] OTHER         -> "wav/pcm"

\* build_streaming_url (AssemblyAI, Deepgram) and build_streaming_request
\* (Gladia): the encoding sent to the vendor when the stream is opened; an
\* absent encoding and a string from_str does not know send none
build_streaming(v, encoding) ==
    IF encoding = "None" \/ streaming_from_str(encoding) = "None"
    THEN EncOk("None")
    ELSE EncOk(CASE v = "AssemblyAI" -> to_assemblyai(streaming_from_str(encoding))
                 [] v = "Deepgram"   -> to_deepgram(streaming_from_str(encoding))
                 [] v = "Gladia"     -> to_gladia_request(streaming_from_str(encoding)))

\* StreamingOptions.encoding: the names of the encodings, one more codec and
\* a string no parser knows
EncodingStrings == {as_str(e) : e \in Encodings} \cup {"mp3", "unknown"}

\* the channel counts given: mono, stereo and the most
ChannelCounts == {1, 2, 8}

EncOps ==
    {"map_encoding_to_provider", "validate_audio_config", "build_streaming",
     "streaming_token"}

EncInit ==
    /\ enOp \in EncOps
    /\ enVendor \in Vendors
    /\ enEncoding \in CASE enOp = "map_encoding_to_provider" -> Encodings
                        [] enOp = "validate_audio_config" -> Encodings \cup {"None"}
                        [] enOp = "build_streaming" -> EncodingStrings \cup {"None"}
                        [] enOp = "streaming_token" -> EncodingStrings
    /\ enChannels \in IF enOp = "validate_audio_config"
                      THEN {None} \cup {Some(n) : n \in ChannelCounts}
                      ELSE {None}
    /\ enOut = NotCalled

EncIdle ==
    /\ enOp = "map_encoding_to_provider"
    /\ enVendor = "Deepgram"
    /\ enEncoding = "Linear16"
    /\ enChannels = None
    /\ enOut = NotCalled

\* the function is called
EncCall ==
    /\ enOut = NotCalled
    /\ enOut' = CASE enOp = "map_encoding_to_provider" ->
                       map_encoding_to_provider(enEncoding, enVendor)
                  [] enOp = "validate_audio_config" ->
                       validate_audio_config(enEncoding, enChannels, enVendor)
                  [] enOp = "build_streaming" ->
                       build_streaming(enVendor, enEncoding)
                  [] enOp = "streaming_token" ->
                       streaming_token(enVendor, enEncoding)
    /\ UNCHANGED <<enOp, enVendor, enEncoding, enChannels>>

PureIdle == ParseIdle /\ TimeIdle /\ EncIdle

-----------------------------------------------------------------------------
(* VoiceRouter: the calls that select a provider and delegate              *)

\* what the last call through the router did: the selection it made, how
\* the call ended ("Adapter": with whatever the adapter's method returned)
\* and which adapter method it invoked
NotRouted ==
    [op |-> "none", sel |-> NoSelect, out |-> "none", invoked |-> "None"]
Routed(op, sel, out, invoked) ==
    [op |-> op, sel |-> sel, out |-> out, invoked |-> invoked]

\* adapter.capabilities().streaming of the adapter registered for p
supports_streaming_always(caps, p) == TRUE
supports_streaming(caps, p) == caps[p]

\* VoiceRouter::transcribe after select_provider(None) returned `sel`:
\* `?` returns its error, transcribe_with_provider gets the adapter and calls
\* its transcribe
transcribe_routed(sel, registered) ==
    IF sel.out # "Ok" THEN Routed("transcribe", sel, sel.out, "None")
    ELSE IF sel.provider \notin registered
    THEN Routed("transcribe", sel, "InvalidConfig", "None")
    ELSE Routed("transcribe", sel, "Adapter", <<sel.provider, "transcribe">>)

\* VoiceRouter::transcribe_stream_with_provider after select_provider
\* returned `sel`: get_adapter, the capability check, then the adapter's
\* transcribe_stream
transcribe_stream_routed(op, sel, registered, caps) ==
    IF sel.out # "Ok" THEN Routed(op, sel, sel.out, "None")
    ELSE IF sel.provider \notin registered
    THEN Routed(op, sel, "InvalidConfig", "None")
    ELSE IF ~supports_streaming(caps, sel.provider)
    THEN Routed(op, sel, "NotSupported", "None")
    ELSE Routed(op, sel, "Adapter", <<sel.provider, "transcribe_stream">>)

\* the built-in adapters all report streaming: true
DispatchInit ==
    /\ streamCaps = [p \in Providers |-> TRUE]
    /\ routed = NotRouted

DispatchIdle == DispatchInit

\* register_adapter(adapter) with an adapter of the caller's own, which may
\* replace a built-in one and may not support streaming; at most one adapter
\* without streaming is registered
RegisterCustom(p, streaming) ==
    /\ \A q \in Providers : streamCaps[q]
    /\ RegisterAdapter(p)
    /\ streamCaps' = IF p \in cfgProviders
                     THEN [streamCaps EXCEPT ![p] = streaming]
                     ELSE streamCaps
    /\ UNCHANGED routed

\* VoiceRouter::transcribe(audio, options)
RouterTranscribe ==
    /\ rrIndex < MaxDispatch
    /\ SelectProvider("None")
    /\ routed' = transcribe_routed(lastSelect', adapters)
    /\ UNCHANGED streamCaps

\* VoiceRouter::transcribe_stream(options, callbacks)
RouterTranscribeStream ==
    /\ rrIndex < MaxDispatch
    /\ SelectProvider("None")
    /\ routed' = transcribe_stream_routed("transcribe_stream", lastSelect',
                                          adapters, streamCaps)
    /\ UNCHANGED streamCaps

\* VoiceRouter::transcribe_stream_with_provider(Some(p), options, callbacks)
TranscribeStreamWithProvider(p) ==
    /\ rrIndex < MaxDispatch
    /\ SelectProvider(p)
    /\ routed' = transcribe_stream_routed("transcribe_stream_with_provider",
                                          lastSelect', adapters, streamCaps)
    /\ UNCHANGED streamCaps

DispatchNext ==
    \/ RouterNew /\ UNCHANGED dispatchVars
    \/ \E p \in Providers, streaming \in BOOLEAN : RegisterCustom(p, streaming)
    \/ RouterTranscribe
    \/ RouterTranscribeStream
    \/ \E p \in Providers : TranscribeStreamWithProvider(p)

\* no router call is being checked
-----------------------------------------------------------------------------
(* WebhookRouter::route (webhooks/mod.rs, webhooks/gladia.rs)              *)

\* the `event` field of a payload: absent, not a string, or one of these
\* strings
EventValues ==
    {"absent", "nonstring", "transcription.success", "transcription.error",
     "transcription.created", "job.done"}

\* the shape of the payload bytes: whether they are JSON at all, the `event`
\* and `id` fields, and whether `status`, `payload` and `error.message` are
\* present
WebhookPayloads ==
    [json : BOOLEAN, event : EventValues, id : {"absent", "string", "number"},
     status : BOOLEAN, payload : BOOLEAN, message : BOOLEAN]

NotRoutedYet == [ok |-> FALSE, err |-> "not called", detail |-> ""]
WebhookErr(err, detail) == [ok |-> FALSE, err |-> err, detail |-> detail]

\* a UnifiedWebhookEvent: success, provider, event_type, data.status and
\* data.error
WebhookEvent(success, provider, event_type, status, error) ==
    [ok |-> TRUE, success |-> success, provider |-> provider,
     event_type |-> event_type, status |-> status, error |-> error]

\* event.starts_with("transcription.")
IsGladiaEnvelopeAnyEvent(payload) == payload.event \notin {"absent", "nonstring"}
IsGladiaEnvelope(payload) ==
    payload.event \in {"transcription.success", "transcription.error",
                       "transcription.created"}

\* GladiaWebhookHandler::parse_success
parse_success(payload) ==
    IF ~payload.payload
    THEN WebhookErr("InvalidPayload", "Missing 'payload' field")
    ELSE WebhookEvent(TRUE, "Gladia", "TranscriptionCompleted", "Completed", None)

\* GladiaWebhookHandler::parse_error
parse_error(payload) ==
    WebhookEvent(FALSE, "Gladia", "TranscriptionFailed", "Error",
                 Some(IF payload.message THEN "vendor message"
                                         ELSE "Transcription failed"))

\* GladiaWebhookHandler::parse
gladia_parse(payload) ==
    IF payload.id # "string"
    THEN WebhookErr("InvalidPayload", "Missing 'id' field")
    ELSE IF payload.event \in {"absent", "nonstring"}
    THEN WebhookErr("InvalidPayload", "Missing 'event' field")
    ELSE CASE payload.event = "transcription.success" -> parse_success(payload)
           [] payload.event = "transcription.error"   -> parse_error(payload)
           [] OTHER -> WebhookErr("UnknownEvent", payload.event)

\* WebhookRouter::route
route(payload) ==
    IF ~payload.json THEN WebhookErr("JsonError", "")
    ELSE IF IsGladiaEnvelope(payload) THEN gladia_parse(payload)
    ELSE IF payload.status /\ payload.id # "absent"
    THEN WebhookErr("UnsupportedProvider", "assemblyai")
    ELSE WebhookErr("UnknownProvider", "")

WebhookInit ==
    /\ whPayload \in WebhookPayloads
    /\ whOut = NotRoutedYet

WebhookIdle ==
    /\ whPayload = [json |-> FALSE, event |-> "absent", id |-> "absent",
                    status |-> FALSE, payload |-> FALSE, message |-> FALSE]
    /\ whOut = NotRoutedYet

\* WebhookRouter::route(payload) is called
RouteWebhook ==
    /\ whOut = NotRoutedYet
    /\ whOut' = route(whPayload)
    /\ UNCHANGED whPayload

-----------------------------------------------------------------------------
(* speakers and words of a polled job (adapters/gladia.rs,                 *)
(* adapters/assemblyai.rs)                                                 *)

MaxUtterances == 2
MaxUttWords == 1
MaxTopWords == 2
MaxPolls == 3

SeqsUpTo(S, n) == UNION {[1..k -> S] : k \in 0..n}

\* UtteranceDto.speaker is Option<i32>, TranscriptUtterance.speaker a String,
\* TranscriptWord.speaker an Option<String>
VendorSpeakers(v) ==
    IF v = "Gladia" THEN {None, Some(0), Some(1)} ELSE {Some("A"), Some("B")}
VendorWordTags == {None, Some("A"), Some("B")}

\* the vendor's utterances (each with its speaker and the number of its
\* words) and, for AssemblyAI, the transcript's own word list (each word
\* with the speaker the vendor put on it); None where the vendor's answer
\* has no such field
JobBodies(v) ==
    IF v = "Gladia"
    THEN [utterances : {None} \cup
              {Some(u) : u \in SeqsUpTo([speaker : VendorSpeakers(v),
                                         nwords : 0..MaxUttWords], MaxUtterances)},
          words : {None}]
    ELSE [utterances : {None} \cup
              {Some(u) : u \in SeqsUpTo([speaker : VendorSpeakers(v), nwords : {0}],
                                        MaxUtterances)},
          words : {None} \cup {Some(w) : w \in SeqsUpTo(VendorWordTags, MaxTopWords)}]

\* the statuses a job goes through: not terminal until the last one
JobScripts(v) ==
    {s \in SeqsUpTo(Statuses(v), MaxPolls) :
        /\ s # <<>>
        /\ \A i \in DOMAIN s : IsTerminal(v, s[i]) <=> i = Len(s)}

\* i32::to_string
id_to_string(id) == IF id = 0 THEN "0" ELSE "1"

\* the elements of a sequence, each once (collect into a HashSet)
RECURSIVE Distinct(_)
Distinct(ids) ==
    IF ids = <<>> THEN <<>>
    ELSE LET rest == Distinct(Tail(ids))
         IN IF Head(ids) \in Range(rest) THEN rest ELSE <<Head(ids)>> \o rest

\* the speaker ids extract_speakers collects from the utterances
gladia_speaker_ids(utterances) ==
    Distinct(Flatten([i \in DOMAIN utterances |->
                 IF utterances[i].speaker.some
                 THEN <<id_to_string(utterances[i].speaker.val)>> ELSE <<>>]))
assemblyai_speaker_ids(utterances) ==
    Distinct([i \in DOMAIN utterances |-> utterances[i].speaker.val])

\* Option<Vec<Speaker>>: the ids in the order the HashSet yields them
extract_speakers(v, utterances) ==
    LET ids == IF v = "Gladia" THEN gladia_speaker_ids(utterances)
                               ELSE assemblyai_speaker_ids(utterances)
    IN IF ids = <<>> THEN {None} ELSE {Some(o) : o \in Perms(Range(ids))}

\* GladiaAdapter::extract_words: the words of all utterances, each with
\* the speaker of its utterance
gladia_word_speaker_none(u) == None
gladia_word_speaker(u) ==
    IF u.speaker.some THEN Some(id_to_string(u.speaker.val)) ELSE None
extract_words(utterances) ==
    LET words == Flatten([i \in DOMAIN utterances |->
                     [k \in 1..utterances[i].nwords |->
                          gladia_word_speaker(utterances[i])]])
    IN IF words = <<>> THEN None ELSE Some(words)

\* AssemblyAIAdapter::map_word over the transcript's words: the speaker of
\* each Word
assemblyai_words(words) ==
    IF words.some THEN Some([i \in DOMAIN words.val |-> words.val[i]]) ELSE None

\* speakers and words of the TranscriptionData normalize_response builds
NoTranscriptionData == [speakers |-> None, words |-> None, built |-> FALSE]
transcription_data(v, body) ==
    IF v = "Gladia"
    THEN IF body.utterances.some
         THEN {[speakers |-> sp, words |-> extract_words(body.utterances.val),
                built |-> TRUE] :
                   sp \in extract_speakers(v, body.utterances.val)}
         ELSE {[speakers |-> None, words |-> None, built |-> TRUE]}
    ELSE {[speakers |-> sp, words |-> assemblyai_words(body.words), built |-> TRUE] :
              sp \in IF body.utterances.some
                     THEN extract_speakers(v, body.utterances.val) ELSE {None}}

DiarInit ==
    /\ dzScript \in JobScripts(pollVendor)
    /\ dzBody \in JobBodies(pollVendor)
    /\ dzData = NoTranscriptionData

DiarIdle ==
    /\ dzScript = <<>>
    /\ dzBody = [utterances |-> None, words |-> None]
    /\ dzData = NoTranscriptionData

\* one status fetch of poll_for_completion against the job: the vendor
\* reports the next status, and a job that is not in error is normalized
\* with its utterances and words
DiarFetch ==
    /\ fetches < Len(dzScript)
    /\ Fetch
    /\ lastFetch' = Job(dzScript[fetches + 1], "None")
    /\ IF ppc' = "done" /\ pollResult'.tag = "Ok" /\ pollResult'.resp.success
       THEN dzData' \in transcription_data(pollVendor, dzBody)
       ELSE UNCHANGED dzData
    /\ UNCHANGED <<dzScript, dzBody>>

DiarNext ==
    \/ PollStart /\ UNCHANGED diarVars
    \/ DiarFetch
    \/ Sleep /\ UNCHANGED diarVars

-----------------------------------------------------------------------------
(* the status fetches for one job: poll_for_completion and get_transcript  *)
(* of an adapter used by several callers                                   *)

NGetters == 2
MaxInFlight == 2

Getters == 1..NGetters

FetchInit ==
    /\ jfConfig \in BOOLEAN
    /\ jfPc = "start"
    /\ jfAttempt = 0
    /\ jfPolling = 0
    /\ jfSlept = FALSE
    /\ jfGetters = [g \in Getters |-> "idle"]

FetchIdle ==
    /\ jfConfig = FALSE
    /\ jfPc = "start"
    /\ jfAttempt = 0
    /\ jfPolling = 0
    /\ jfSlept = FALSE
    /\ jfGetters = [g \in Getters |-> "idle"]

\* where poll_for_completion may call get_transcript(api_config, id): at
\* the head of a loop iteration
MayFetchWhileAwaiting(at) == at \in {"loop", "await"}
MayFetch(at) == at = "loop"

\* api_config check and entry into `for _ in 0..MAX_ATTEMPTS`
PollBegin ==
    /\ jfPc = "start"
    /\ jfPc' = IF jfConfig /\ InRange(jfAttempt) THEN "loop" ELSE "done"
    /\ UNCHANGED <<jfConfig, jfAttempt, jfPolling, jfSlept, jfGetters>>

\* the request of one loop iteration is sent
PollIssue ==
    /\ MayFetch(jfPc)
    /\ jfPolling < MaxInFlight
    /\ jfPolling' = jfPolling + 1
    /\ jfPc' = "await"
    /\ jfSlept' = FALSE
    /\ UNCHANGED <<jfConfig, jfAttempt, jfGetters>>

\* `.await` returns: an error or a terminal status ends the call, any other
\* status leads to the sleep
PollAnswer ==
    /\ jfPc = "await"
    /\ jfPolling > 0
    /\ jfPolling' = jfPolling - 1
    /\ \E r \in Fetched("AssemblyAI") :
          jfPc' = IF r.ok /\ ~IsTerminal("AssemblyAI", r.status)
                  THEN "sleep" ELSE "done"
    /\ UNCHANGED <<jfConfig, jfAttempt, jfSlept, jfGetters>>

\* tokio::time::sleep(POLL_INTERVAL_MS) returns and the loop advances
PollSleep ==
    /\ jfPc = "sleep"
    /\ jfSlept' = TRUE
    /\ jfAttempt' = jfAttempt + 1
    /\ jfPc' = IF InRange(jfAttempt + 1) THEN "loop" ELSE "done"
    /\ UNCHANGED <<jfConfig, jfPolling, jfGetters>>

\* a caller's get_transcript(id) on the same adapter sends its request
GetIssue(g) ==
    /\ jfGetters[g] = "idle"
    /\ jfGetters' = [jfGetters EXCEPT ![g] = IF jfConfig THEN "await" ELSE "done"]
    /\ UNCHANGED <<jfConfig, jfPc, jfAttempt, jfPolling, jfSlept>>

\* and is answered
GetAnswer(g) ==
    /\ jfGetters[g] = "await"
    /\ jfGetters' = [jfGetters EXCEPT ![g] = "done"]
    /\ UNCHANGED <<jfConfig, jfPc, jfAttempt, jfPolling, jfSlept>>

FetchNext ==
    \/ PollBegin
    \/ PollIssue
    \/ PollAnswer
    \/ PollSleep
    \/ \E g \in Getters : GetIssue(g)
    \/ \E g \in Getters : GetAnswer(g)

-----------------------------------------------------------------------------
(* select_provider on two VoiceRouter values (router.rs)                   *)

MaxCounterCalls == 3

Routers == {"r1", "r2"}

\* adapters.keys() of a constructed router
KeyOrders == {<<>>, <<"Gladia">>, <<"Gladia", "AssemblyAI">>}

NoRouterCall == [router |-> "none", sel |-> NoSelect, n |-> 0]

\* the AtomicUsize a router's select_provider advances: the field
\* round_robin_index of that router, created in VoiceRouter::new
counter_of_shared(r) == "r1"
counter_of(r) == r

CountersInit ==
    /\ rtStrategy \in [Routers -> Strategies]
    /\ rtOrder \in [Routers -> KeyOrders]
    /\ rtDefault \in [Routers -> {"None", "Gladia"}]
    /\ rtIndex = [r \in Routers |-> 0]
    /\ rtLast = NoRouterCall

CountersIdle ==
    /\ rtStrategy = [r \in Routers |-> "Default"]
    /\ rtOrder = [r \in Routers |-> <<>>]
    /\ rtDefault = [r \in Routers |-> "None"]
    /\ rtIndex = [r \in Routers |-> 0]
    /\ rtLast = NoRouterCall

\* VoiceRouter::select_provider(preferred_provider) on router r
SelectOn(r, pref) ==
    /\ rtLast.n < MaxCounterCalls
    /\ LET registered == Range(rtOrder[r])
           index == rtIndex[counter_of(r)]
           advanced == [rtIndex EXCEPT ![counter_of(r)] = NextIndex(index)]
           done(sel, idx) ==
               /\ rtLast' = [router |-> r, sel |-> sel, n |-> rtLast.n + 1]
               /\ rtIndex' = idx
       IN IF pref # "None"
          THEN done(IF pref \in registered THEN Selected(pref, pref)
                    ELSE InvalidConfig(pref, registered), rtIndex)
          ELSE CASE rtStrategy[r] = "Explicit" ->
                      done(InvalidConfig(pref, {}), rtIndex)
                 [] rtStrategy[r] = "RoundRobin" ->
                      done(IF rtOrder[r] = <<>> THEN Panicked(pref)
                           ELSE Selected(pref, RoundRobinPick(rtOrder[r], index)),
                           advanced)
                 [] rtStrategy[r] = "Default" ->
                      done(IF rtDefault[r] = "None" THEN InvalidConfig(pref, {})
                           ELSE Selected(pref, rtDefault[r]), rtIndex)
    /\ UNCHANGED <<rtStrategy, rtOrder, rtDefault>>

CountersNext ==
    \E r \in Routers, pref \in {"None", "Gladia", "Deepgram"} : SelectOn(r, pref)

\* no normalizer, fetch schedule or pair of routers is being checked
NormIdle == WebhookIdle /\ DiarIdle /\ FetchIdle /\ CountersIdle

\* no router call is being checked
OtherIdle == PureIdle /\ DispatchIdle /\ NormIdle


-----------------------------------------------------------------------------
(* Specifications                                                          *)

SessNext ==
    \/ Connect
    \/ EmitEvent
    \/ AudioBranch
    \/ WsBranch
    \/ CloseBranch
    \/ SendAudio
    \/ RecvEvent
    \/ SessionClose
    \/ SessionCloseReturn
    \/ HandleClose
    \/ DropSession

\* the session no action of a router or poll specification touches
SessIdle ==
    /\ vendor = "Deepgram"
    /\ api = "session"
    /\ pc = "connect"
    /\ pending = Idle
    /\ audioQ = <<>>
    /\ submitted = <<>>
    /\ buffer = <<>>
    /\ wire = <<>>
    /\ received = <<>>
    /\ emitted = <<>>
    /\ rxCount = 0
    /\ audioTx = "held"
    /\ eventRx = "held"
    /\ closeTx = "held"
    /\ closeSeen = FALSE
    /\ conn = "pending"
    /\ closeAt = "never"
    /\ lastCall = NoCall

\* one streaming session: the spawned task and its caller
Init == SessInit /\ RouterIdle /\ PollIdle /\ BatchIdle /\ BufIdle /\ OtherIdle

Next ==
    SessNext /\ UNCHANGED <<routerVars, callerVars, pollVars, batchVars, bufVars,
                           otherVars>>

Spec == Init /\ [][Next]_vars

\* the session under the scheduling the runtime gives it: the spawned task
\* is polled whenever it can go on (connect returns, an event send finds
\* room or a dropped receiver, select! takes a ready branch), select! draws
\* the branch it polls first at random, so a close signal that stays ready
\* is taken at some pass through the loop, and StreamingSession::close
\* returns. Nothing makes the caller receive events, send audio or close.
MaxLiveInputs == 2

NextFair == Next /\ Len(submitted') + Len(received') <= MaxLiveInputs
TaskStep ==
    (Connect \/ EmitEvent \/ AudioBranch \/ WsBranch \/ CloseBranch) /\ NextFair
CloseStep == CloseBranch /\ NextFair
CloseReturnStep == SessionCloseReturn /\ NextFair

SpecSessionFair ==
    /\ Init
    /\ [][NextFair]_vars
    /\ WF_vars(TaskStep) /\ SF_vars(CloseStep) /\ WF_vars(CloseReturnStep)

\* one router used by one caller at a time
InitRouter ==
    /\ SessIdle /\ RouterInit /\ CallersInit /\ PollIdle /\ BatchIdle /\ BufIdle
    /\ OtherIdle

NextRouter ==
    RouterNext /\ UNCHANGED <<sessVars, callerVars, pollVars, batchVars, bufVars,
                             otherVars>>

SpecRouter == InitRouter /\ [][NextRouter]_vars

\* one round-robin router shared by concurrent callers
InitShared ==
    /\ SessIdle /\ RouterInit /\ CallersInit /\ PollIdle /\ BatchIdle /\ BufIdle
    /\ OtherIdle
    /\ strategy = "RoundRobin"

NextShared ==
    \/ RouterNew /\ UNCHANGED <<sessVars, callerVars, pollVars, batchVars, bufVars,
                               otherVars>>
    \/ CallersNext /\ UNCHANGED <<sessVars, pollVars, batchVars, bufVars, otherVars,
                                  rphase, newPanic, cfgProviders,
                                  cfgKeys, strategy, defaultProvider, adapters,
                                  order, rrLog, rrBase, lastSelect>>

SpecShared == InitShared /\ [][NextShared]_vars

\* one poll_for_completion call
InitPoll ==
    SessIdle /\ RouterIdle /\ PollInit /\ BatchIdle /\ BufIdle /\ OtherIdle

NextPoll ==
    PollNext /\ UNCHANGED <<sessVars, routerVars, callerVars, batchVars, bufVars,
                           otherVars>>

SpecPoll == InitPoll /\ [][NextPoll]_vars

\* every fetch and every sleep of the poll returns
SpecPollFair == SpecPoll /\ WF_vars(NextPoll)

\* one batch call (transcribe or get_transcript) on one adapter
InitBatch ==
    /\ SessIdle /\ RouterIdle /\ BatchInit /\ BufIdle /\ OtherIdle
    /\ pollVendor \in Vendors
    /\ apiConfig \in BOOLEAN
    /\ ppc = "start"
    /\ attempt = 0
    /\ fetches = 0
    /\ fetchLog = <<>>
    /\ lastFetch = NotFetched
    /\ pollResult = Running

NextBatch ==
    BatchNext /\ UNCHANGED <<sessVars, routerVars, callerVars, bufVars, otherVars>>

SpecBatch == InitBatch /\ [][NextBatch]_vars

\* one AudioBuffer and the calls made on it
InitBuffer ==
    SessIdle /\ RouterIdle /\ PollIdle /\ BatchIdle /\ BufNew /\ OtherIdle

NextBuffer ==
    BufNext /\ UNCHANGED <<sessVars, routerVars, callerVars, pollVars, batchVars,
                          otherVars>>

SpecBuffer == InitBuffer /\ [][NextBuffer]_vars

\* one text message parsed by one adapter
InitParse ==
    /\ SessIdle /\ RouterIdle /\ PollIdle /\ BatchIdle /\ BufIdle
    /\ ParseInit /\ TimeIdle /\ EncIdle /\ DispatchIdle /\ NormIdle

NextParse ==
    ParseMessage /\ UNCHANGED <<sessVars, routerVars, callerVars, pollVars,
                                batchVars, bufVars, timeVars, encVars,
                                dispatchVars, normVars>>

SpecParse == InitParse /\ [][NextParse]_vars

\* one AssemblyAI word or utterance mapped to canonical times
InitTime ==
    /\ SessIdle /\ RouterIdle /\ PollIdle /\ BatchIdle /\ BufIdle
    /\ ParseIdle /\ TimeInit /\ EncIdle /\ DispatchIdle /\ NormIdle

NextTime ==
    MapTimes /\ UNCHANGED <<sessVars, routerVars, callerVars, pollVars,
                            batchVars, bufVars, parseVars, encVars,
                            dispatchVars, normVars>>

SpecTime == InitTime /\ [][NextTime]_vars

\* one encoding handed to one vendor mapping
InitEncoding ==
    /\ SessIdle /\ RouterIdle /\ PollIdle /\ BatchIdle /\ BufIdle
    /\ ParseIdle /\ TimeIdle /\ EncInit /\ DispatchIdle /\ NormIdle

NextEncoding ==
    EncCall /\ UNCHANGED <<sessVars, routerVars, callerVars, pollVars,
                           batchVars, bufVars, parseVars, timeVars,
                           dispatchVars, normVars>>

SpecEncoding == InitEncoding /\ [][NextEncoding]_vars

\* one router and the calls made through it
InitDispatch ==
    /\ SessIdle /\ RouterInit /\ CallersInit /\ PollIdle /\ BatchIdle /\ BufIdle
    /\ PureIdle /\ DispatchInit /\ NormIdle
    /\ Cardinality(cfgProviders) <= MaxConfigured

NextDispatch ==
    DispatchNext /\ UNCHANGED <<sessVars, callerVars, pollVars, batchVars,
                                bufVars, pureVars, normVars>>

SpecDispatch == InitDispatch /\ [][NextDispatch]_vars

\* one webhook payload routed
InitWebhook ==
    /\ SessIdle /\ RouterIdle /\ PollIdle /\ BatchIdle /\ BufIdle
    /\ PureIdle /\ DispatchIdle /\ WebhookInit /\ DiarIdle /\ FetchIdle
    /\ CountersIdle

NextWebhook ==
    RouteWebhook /\ UNCHANGED <<sessVars, routerVars, callerVars, pollVars,
                                batchVars, bufVars, pureVars, dispatchVars,
                                diarVars, fetchVars, counterVars>>

SpecWebhook == InitWebhook /\ [][NextWebhook]_vars

\* one job polled to its end and normalized
InitDiarize ==
    /\ SessIdle /\ RouterIdle /\ PollInit /\ BatchIdle /\ BufIdle
    /\ PureIdle /\ DispatchIdle /\ WebhookIdle /\ DiarInit /\ FetchIdle
    /\ CountersIdle

NextDiarize ==
    DiarNext /\ UNCHANGED <<sessVars, routerVars, callerVars, batchVars, bufVars,
                            pureVars, dispatchVars, webhookVars, fetchVars,
                            counterVars>>

SpecDiarize == InitDiarize /\ [][NextDiarize]_vars

\* the fetches made for one job by its poller and by callers of
\* get_transcript
InitFetch ==
    /\ SessIdle /\ RouterIdle /\ PollIdle /\ BatchIdle /\ BufIdle
    /\ PureIdle /\ DispatchIdle /\ WebhookIdle /\ DiarIdle /\ FetchInit
    /\ CountersIdle

NextFetch ==
    FetchNext /\ UNCHANGED <<sessVars, routerVars, callerVars, pollVars, batchVars,
                             bufVars, pureVars, dispatchVars, webhookVars, diarVars,
                             counterVars>>

SpecFetch == InitFetch /\ [][NextFetch]_vars

\* two routers, each with its own counter
InitCounters ==
    /\ SessIdle /\ RouterIdle /\ PollIdle /\ BatchIdle /\ BufIdle
    /\ PureIdle /\ DispatchIdle /\ WebhookIdle /\ DiarIdle /\ FetchIdle
    /\ CountersInit

NextCounters ==
    CountersNext /\ UNCHANGED <<sessVars, routerVars, callerVars, pollVars,
                                batchVars, bufVars, pureVars, dispatchVars,
                                webhookVars, diarVars, fetchVars>>

SpecCounters == InitCounters /\ [][NextCounters]_vars

-----------------------------------------------------------------------------
(* Observations on a session                                               *)

IsTermination(w) == w.op = "text" /\ w.text = TerminationMessage(vendor)
IsTransportClose(w) == w.op = "close"
IsBinary(w) == w.op = "binary"
IsFailedBinary(w) == w.op = "binary" /\ w.res = "err"
IsClose(e) == e.type = "Close"
IsOpen(e) == e.type = "Open"
IsError(e) == e.type = "Error"

TerminationCount == Count(wire, IsTermination)
CloseEventCount == Count(emitted, IsClose)

\* the caller still owns the receiving end of the event stream
ReceiverAlive == eventRx # "dropped"

-----------------------------------------------------------------------------
(* C1: close trigger fired twice                                           *)

\* C1 as stated: whenever the close trigger was fired while the loop was
\* running (the task waiting in select!), the ended session has sent exactly
\* one termination control message and delivered exactly one Close event.
C1_ExactlyOneTerminationAndClose ==
    (pc = "done" /\ closeAt = "loop" /\ ReceiverAlive)
        => (TerminationCount = 1 /\ CloseEventCount = 1)

\* the repeated fire of StreamingSessionHandle::close changes nothing and
\* returns Ok
C1_RepeatIsNoOp ==
    (api = "handle" /\ closeTx # "held" /\ lastCall' # lastCall
                    /\ lastCall'.op = "close_again")
        => /\ lastCall'.res = "ok"
           /\ UNCHANGED <<pc, pending, wire, emitted, audioQ, closeTx, closeAt>>

\* C1 amended: a session never sends more than one termination control
\* message nor more than one Close event; when its loop takes the close
\* branch it sends exactly one termination control message and, the
\* receiver still being held when the task ends, exactly one Close event;
\* a second fire of the handle's trigger sends nothing and returns Ok.
C1_AtMostOnceAndRepeatNoOp ==
    /\ [](/\ TerminationCount <= 1
          /\ CloseEventCount <= 1
          /\ closeSeen => TerminationCount = 1
          /\ (closeSeen /\ pc = "done" /\ ReceiverAlive) => CloseEventCount = 1)
    /\ [][C1_RepeatIsNoOp]_vars

\* the handle's trigger was fired a second time after the loop had taken
\* the close branch for the first
C1_Witness ==
    /\ api = "handle"
    /\ closeAt = "loop"
    /\ closeSeen
    /\ pc = "done"
    /\ lastCall = Call("close_again", "ok", TRUE)
    /\ TerminationCount = 1
    /\ CloseEventCount = 1

-----------------------------------------------------------------------------
(* C4: order of the close branch                                           *)

\* the step in which the loop observes the close request
ObservesClose == ~closeSeen /\ closeSeen'

\* the binary frame the close branch owes to the buffered remainder
Remainder(v, buf) ==
    IF Buffered(v) /\ buf # <<>> THEN <<Binary(buf, "ignored")>> ELSE <<>>

\* C4: when the loop observes the close request it appends to the transport,
\* in this order, the non-empty buffered remainder as one binary frame, the
\* termination control text and the transport close, then sends the Close
\* event and ends; each happens once, and no binary frame follows the
\* termination control message.
C4_CloseBranchOrder ==
    /\ [][ObservesClose =>
            /\ wire' = wire \o Remainder(vendor, buffer)
                        \o <<Text(TerminationMessage(vendor), "ignored"),
                             WsClose("ignored")>>
            /\ buffer' = <<>>
            /\ pc' = "emit"
            /\ pending' = Sending(close_event, "done", "done")]_vars
    /\ [](closeSeen =>
            /\ TerminationCount = 1
            /\ Count(wire, IsTransportClose) = 1
            /\ IsTermination(wire[Len(wire) - 1])
            /\ IsTransportClose(wire[Len(wire)])
            /\ \/ pc = "emit" /\ pending.ev = close_event /\ ~(\E i \in DOMAIN emitted : IsClose(emitted[i]))
               \/ pc = "done"
            /\ (pc = "done" /\ ReceiverAlive)
                  => (CloseEventCount = 1 /\ IsClose(emitted[Len(emitted)])))
    /\ [](\A i, j \in DOMAIN wire :
            (IsTermination(wire[i]) /\ IsBinary(wire[j])) => j < i)

\* an AssemblyAI session closed with bytes still buffered: remainder frame,
\* termination text, transport close, Close event, end
C4_Witness ==
    /\ vendor = "AssemblyAI"
    /\ closeSeen
    /\ pc = "done"
    /\ Len(wire) >= 3
    /\ wire[Len(wire) - 2].op = "binary"
    /\ wire[Len(wire) - 2].res = "ignored"
    /\ emitted # <<>>
    /\ IsClose(emitted[Len(emitted)])

-----------------------------------------------------------------------------
(* C5: a failed audio send ends the loop                                   *)

SendFailed == \E i \in DOMAIN wire : IsFailedBinary(wire[i])

\* C5: once sending a binary audio frame has failed, the task is no longer
\* in its select loop (it is reporting the error or has ended) and the
\* failed frame is the last transport operation of the session.
C5_SendFailureEndsLoop ==
    SendFailed => /\ pc # "select"
                  /\ IsFailedBinary(wire[Len(wire)])

-----------------------------------------------------------------------------
(* C6: connection result and the first event                               *)

ConnectionError == error_event("CONNECTION_ERROR")

\* C6: after a failed connect the event stream holds nothing but one
\* CONNECTION_ERROR Error event, never Open, and the task touches neither
\* the transport nor the loop; after a successful connect Open is the first
\* event and occurs once.
C6_ConnectOutcome ==
    /\ conn = "failed" =>
          /\ \A i \in DOMAIN emitted : emitted[i] = ConnectionError
          /\ Len(emitted) <= 1
          /\ wire = <<>> /\ received = <<>>
          /\ pc \in {"emit", "done"}
          /\ (pc = "done" /\ ReceiverAlive) => emitted = <<ConnectionError>>
    /\ conn = "ok" =>
          /\ Count(emitted, IsOpen) <= 1
          /\ emitted # <<>> => IsOpen(emitted[1])
          /\ (TaskPhase # "connect" /\ ReceiverAlive) => emitted # <<>>
    /\ conn = "pending" => emitted = <<>>

C6_WitnessFailed ==
    conn = "failed" /\ pc = "done" /\ emitted = <<ConnectionError>>

-----------------------------------------------------------------------------
(* C7: calls on the handle after the loop has ended                        *)

\* C7: once the task has ended, a send_audio or close of the caller causes
\* no transport traffic, produces no event, is not processed by the task,
\* and returns without error.
C7_CallsAfterEndAreNoOps ==
    /\ [][TaskEnded => UNCHANGED <<pc, pending, wire, emitted, received,
                                   buffer>>]_vars
    /\ []((lastCall.ended /\ lastCall.op \in {"send_audio", "close", "close_again"})
            => lastCall.res = "ok")

-----------------------------------------------------------------------------
(* C8: Error events are terminal                                           *)

\* C8: an Error event on the stream is the last event of the stream and the
\* task has ended its loop.
C8_ErrorIsTerminal ==
    \A i \in DOMAIN emitted :
        IsError(emitted[i]) => (i = Len(emitted) /\ pc = "done")

-----------------------------------------------------------------------------
(* C2: round robin, one caller at a time                                   *)

\* C2: under RoundRobin with n >= 1 registered adapters held in a fixed
\* order, the k-th (0-based) select_provider(None) returns the adapter at
\* position k mod n of that order; k counts from the value the counter had
\* when the adapter map was last changed (0 on a router nothing was
\* registered on).
C2_RoundRobinSequence ==
    (rphase = "ready" /\ strategy = "RoundRobin" /\ order # <<>>) =>
        /\ Len(rrLog) = rrIndex - rrBase
        /\ \A j \in DOMAIN rrLog :
              rrLog[j] = order[((rrBase + j - 1) % Len(order)) + 1]
        /\ (lastSelect.pref = "None" /\ rrLog # <<>>)
              => lastSelect = Selected("None", rrLog[Len(rrLog)])

\* three adapters A, B, C and six calls: A, B, C, A, B, C
C2_Witness ==
    /\ strategy = "RoundRobin"
    /\ Len(order) = 3
    /\ rrBase = 0
    /\ rrLog = order \o order

-----------------------------------------------------------------------------
(* C3: round robin under concurrent callers                                *)

Quiescent == \A c \in Callers : cpc[c] = "idle"

\* C3: whatever the interleaving of concurrent select_provider(None) calls,
\* the counter values handed out are 0, 1, 2, ... without repeat or gap,
\* and whenever k*n calls have returned and none is in flight every one of
\* the n adapters has been selected exactly k times.
C3_FairUnderConcurrency ==
    (rphase = "ready" /\ strategy = "RoundRobin" /\ order # <<>>) =>
        /\ \A i \in DOMAIN handed : handed[i] = i - 1
        /\ rrIndex = Len(handed)
        /\ (Quiescent /\ Len(handed) % Len(order) = 0) =>
              \A p \in adapters : selCount[p] = Len(handed) \div Len(order)

\* two callers overlapped inside select_provider and 2*3 calls have returned
C3_Witness ==
    /\ Len(order) = 3
    /\ Len(handed) = 6
    /\ Quiescent
    /\ \A p \in adapters : selCount[p] = 2

\* two callers are inside select_provider at once, one of them overtaken:
\* it holds an older counter value than the other
C3_Overlap ==
    \E c, d \in Callers : cpc[c] = "fetched" /\ cpc[d] = "fetched" /\ c < d /\ cidx[c] > cidx[d]

-----------------------------------------------------------------------------
(* C9: polling stops at the first terminal status                          *)

TerminalStatuses == {"Completed", "Done", "Error"}

FetchedTerminal(r) == r.ok /\ r.status \in TerminalStatuses

\* C9: once a fetch has returned a terminal status (Completed/Done or
\* Error) poll_for_completion has returned the normalized form of that
\* very fetch, every earlier fetch was not terminal, and no further fetch
\* is issued for the job; a job seen Queued, Processing, Completed is
\* returned after exactly 3 fetches.
C9_ReturnsFirstTerminal ==
    /\ [](FetchedTerminal(lastFetch) =>
            /\ ppc = "done"
            /\ pollResult = Ok(normalize_response(pollVendor, lastFetch))
            /\ pollResult.resp.success = (lastFetch.status # "Error")
            /\ pollResult.resp.raw = "Some"
            /\ \A i \in DOMAIN fetchLog :
                  FetchedTerminal(fetchLog[i]) => i = fetches)
    /\ [](\A i \in DOMAIN fetchLog :
            FetchedTerminal(fetchLog[i]) => (i = Len(fetchLog) /\ ppc = "done"))
    /\ [][ppc = "done" => fetches' = fetches]_vars
    /\ []((/\ Len(fetchLog) = 3
           /\ fetchLog[1].status = "Queued"
           /\ fetchLog[2].status = "Processing"
           /\ fetchLog[3].status \in {"Completed", "Done"})
          => (fetches = 3 /\ ppc = "done" /\ pollResult.resp.success))

\* the job was Queued, then Processing, then Completed
C9_Witness ==
    /\ ppc = "done"
    /\ fetches = 3
    /\ Len(fetchLog) = 3
    /\ fetchLog[1].status = "Queued"
    /\ fetchLog[2].status = "Processing"
    /\ fetchLog[3].status \in {"Completed", "Done"}
    /\ pollResult = Ok(normalize_response(pollVendor, fetchLog[3]))

-----------------------------------------------------------------------------
(* C10: the attempt ceiling                                                *)

-----------------------------------------------------------------------------
(* Observations on a batch call                                            *)

\* transcribe was called on an initialized adapter with a URL and returned
UrlTranscribeDone ==
    bOp = "transcribe" /\ apiConfig /\ bInput = "Url" /\ bpc = "done"

DataPresent(resp) == resp.data.present
ErrorPresent(resp) == resp.error.code # "None"

-----------------------------------------------------------------------------
(* C11: batch failures are returned, not raised                            *)

\* C11: a transcribe on an initialized adapter with URL input never returns
\* Err(AdapterError): a failed submit, a failed fetch, a vendor error status
\* and a polling timeout all come back as Ok(response) with success = false.
C11_BatchFailuresAreResponses ==
    UrlTranscribeDone =>
        /\ bResult.tag = "Ok"
        /\ (\/ lastFetch.status = "Error"
            \/ (fetches = MAX_ATTEMPTS /\ lastFetch.status \in {"Queued", "Processing"}))
              => ~bResult.resp.success

\* what holds instead: vendor error status and timeout are responses,
\* failed requests are raised as ProviderError API_ERROR
C11_RequestFailuresAreRaised ==
    UrlTranscribeDone =>
        /\ bResult.tag = "Err" <=>
              \/ (fetches = 0 /\ submits = 1 /\ bResult = ApiError /\ lastFetch = NotFetched)
              \/ (fetches > 0 /\ lastFetch = FetchFailed /\ bResult = ApiError)
        /\ bResult.tag = "Ok" => (bResult.resp.success <=> ~ErrorPresent(bResult.resp))

-----------------------------------------------------------------------------
(* C12: webhook submissions return at once                                 *)

\* the submit call of a webhook transcribe succeeded
WebhookSubmitted ==
    UrlTranscribeDone /\ bWebhook /\ submits = 1 /\ bResult # ApiError

\* C12: for every vendor, transcribe with a webhook URL returns after the
\* submit call without any poll fetch, with success = true, status Queued
\* and an empty payload.
C12_WebhookReturnsQueued ==
    WebhookSubmitted =>
        /\ fetches = 0
        /\ bResult.tag = "Ok"
        /\ bResult.resp.success
        /\ bResult.resp.data = Data("Queued", "empty")

-----------------------------------------------------------------------------
(* C20: data iff success, error iff failure                                *)

WellFormed(resp) ==
    /\ DataPresent(resp) <=> resp.success
    /\ ErrorPresent(resp) <=> ~resp.success

\* C20: every response an adapter returns, from normalize_response, from
\* the webhook return or from the polling timeout, carries data exactly
\* when success is true and an error exactly when success is false.
C20_DataIffSuccess ==
    /\ bResult.tag = "Ok" => WellFormed(bResult.resp)
    /\ pollResult.tag = "Ok" => WellFormed(pollResult.resp)

\* a normalized vendor error status was returned by transcribe
C20_Witness ==
    /\ UrlTranscribeDone
    /\ lastFetch.status = "Error"
    /\ bResult = Ok(normalize_response(pollVendor, lastFetch))
    /\ ~bResult.resp.success
    /\ ~DataPresent(bResult.resp)

-----------------------------------------------------------------------------
(* C13: add returns chunks of exactly max_bytes                            *)

\* C13: with max_bytes > 0 every chunk add returns is exactly max_bytes
\* long, and after any sequence of calls fewer than max_bytes bytes stay
\* buffered; 5 units added to an empty buffer of max_bytes 4 units give one
\* chunk of 4 and leave 1 (40000 bytes into a 32000-byte policy: 32000 and
\* 8000).
C13_AddChunksExactlyMax ==
    /\ abLast.op = "add" =>
          \A i \in DOMAIN abLast.ret : Len(abLast.ret[i]) = abMax
    /\ Len(abBuf) < abMax
    /\ (abLast.op = "add" /\ abAdds = 1 /\ abFlushes = 0
            /\ Len(abIn) = 5 /\ abMax = 4)
          => (Len(abLast.ret) = 1 /\ Len(abLast.ret[1]) = 4 /\ Len(abBuf) = 1)

\* 5 units added at once to an empty buffer with max_bytes = 4 units
C13_Witness ==
    /\ abLast.op = "add" /\ abAdds = 1 /\ abFlushes = 0
    /\ abMax = 4
    /\ abIn = <<1, 2, 3, 4, 5>>
    /\ abLast.ret = << <<1, 2, 3, 4>> >>
    /\ abBuf = <<5>>

-----------------------------------------------------------------------------
(* C14: flush                                                              *)

\* C14: flush returns all buffered bytes as one chunk when the buffer is
\* not empty, whatever min_bytes is, and none when it is empty; it leaves
\* the buffer empty, so a flush right after a flush returns none.
C14_FlushReturnsAllOrNone ==
    [][(abFlushes' = abFlushes + 1) =>
          /\ abLast'.op = "flush"
          /\ abLast'.ret = (IF abBuf # <<>> THEN <<abBuf>> ELSE <<>>)
          /\ abBuf' = <<>>
          /\ abLast.op = "flush" => abLast'.ret = <<>>]_vars

\* what holds instead: flush on an empty buffer returns none exactly when
\* min_bytes > 0, and Some(empty chunk) when min_bytes = 0
C14_FlushOnEmpty ==
    [][(abFlushes' = abFlushes + 1) =>
          /\ abLast'.op = "flush"
          /\ abBuf' = <<>>
          /\ abBuf # <<>> => abLast'.ret = <<abBuf>>
          /\ abBuf = <<>> => abLast'.ret = (IF abMin = 0 THEN << <<>> >> ELSE <<>>)]_vars

-----------------------------------------------------------------------------
(* C15: no byte lost, duplicated or reordered                              *)

\* C15: the chunks returned so far, concatenated in return order, followed
\* by what is still buffered are the bytes added so far in call order; so
\* after a sequence of adds and one flush the returned chunks, the flushed
\* remainder included, concatenate to exactly the input.
C15_ConcatenationPreserved ==
    /\ Flatten(abOut) \o abBuf = abIn
    /\ abLast.op = "flush" => Flatten(abOut) = abIn

\* three adds, at least two chunks returned by them, then one flush that
\* returned a remainder
C15_Witness ==
    /\ abAdds = 3 /\ abFlushes = 1
    /\ abLast.op = "flush" /\ abLast.ret # <<>> /\ abLast.ret[1] # <<>>
    /\ Len(abOut) >= 3
    /\ Flatten(abOut) = abIn

-----------------------------------------------------------------------------
(* C16: audio is forwarded in submission order                             *)

IsPrefix(a, b) == Len(a) <= Len(b) /\ a = SubSeq(b, 1, Len(a))

\* a binary frame handed to the transport whose send did not fail
IsTransmitted(w) == w.op = "binary" /\ w.res # "err"
Frame(w) == w.data
Frames == [i \in DOMAIN SelectSeq(wire, IsTransmitted) |->
              Frame(SelectSeq(wire, IsTransmitted)[i])]

\* C16: the bytes of the transmitted binary frames, in transmission order,
\* are a prefix of the submitted audio in submission order; Deepgram and
\* Gladia transmit every submitted chunk as one frame of its own.
C16_AudioForwardedInOrder ==
    /\ IsPrefix(Flatten(Frames), Flatten(submitted))
    /\ ~Buffered(vendor) => IsPrefix(Frames, submitted)

\* what holds instead: the claim holds for Deepgram and Gladia, and for
\* AssemblyAI as long as no binary send has failed
C16_InOrderUntilSendFails ==
    (~Buffered(vendor) \/ ~SendFailed) =>
        /\ IsPrefix(Flatten(Frames), Flatten(submitted))
        /\ ~Buffered(vendor) => IsPrefix(Frames, submitted)

-----------------------------------------------------------------------------
(* C17: events follow the order of the transport messages                  *)

FromTransport(e) == e.src > 0
Derived == SelectSeq(emitted, FromTransport)

\* C17: the events derived from transport messages appear on the event
\* stream in the order the messages were received, each message's event
\* once and as parsed from that message alone, none skipped while the
\* receiver is held; the caller takes them from the stream in that order.
C17_EventsInReceiptOrder ==
    /\ \A i \in DOMAIN Derived :
          /\ Derived[i].src \in DOMAIN received
          /\ Derived[i] = parse_streaming_message(vendor, received[Derived[i].src],
                                                  Derived[i].src)
    /\ \A i, j \in DOMAIN Derived : i < j => Derived[i].src < Derived[j].src
    /\ \A i \in DOMAIN Derived : \A k \in 1..(Derived[i].src - 1) :
          parse_streaming_message(vendor, received[k], k) # NoEvent
             => \E j \in 1..(i - 1) : Derived[j].src = k
    /\ rxCount <= Len(emitted)

\* three messages received, the first and the third parsed into events, both
\* delivered to the caller in that order
C17_Witness ==
    /\ Len(received) = 3
    /\ Len(Derived) = 2
    /\ Derived[1].src = 1 /\ Derived[2].src = 3
    /\ rxCount = Len(emitted)

-----------------------------------------------------------------------------
(* C18: unrecognized messages are dropped silently                         *)

\* the step in which ws.recv() returned a text message of no known shape
ReceivesUnknown ==
    /\ Len(received') = Len(received) + 1
    /\ received'[Len(received')] = "unknown"

UnknownAt(k) == k \in DOMAIN received /\ received[k] = "unknown"

\* C18: a text message of no known shape produces no event and leaves the
\* task in its select loop; no event on the stream stems from it.
C18_UnknownIsDropped ==
    /\ [][ReceivesUnknown =>
            /\ pc' = "select"
            /\ pending' = Idle
            /\ UNCHANGED <<emitted, wire, buffer, audioQ>>]_vars
    /\ [](\A i \in DOMAIN emitted : ~UnknownAt(emitted[i].src))

\* after an unrecognized message the loop has still processed audio, a
\* later message and the close request
C18_Witness ==
    /\ UnknownAt(1)
    /\ \E i \in DOMAIN emitted : emitted[i].src = 2
    /\ \E i \in DOMAIN wire : IsTransmitted(wire[i])
    /\ closeSeen
    /\ pc = "done"
    /\ emitted[Len(emitted)] = close_event

-----------------------------------------------------------------------------
(* C19: two full frames, no extra frame on close                           *)

BinaryOps == SelectSeq(wire, IsBinary)

\* an AssemblyAI session that consumed exactly two max_bytes of audio over a
\* transport on which no binary send failed
ConsumedTwoFrames ==
    /\ vendor = "AssemblyAI"
    /\ conn = "ok"
    /\ Len(Flatten(submitted)) = 2 * MaxBytes
    /\ audioQ = <<>>
    /\ ~SendFailed

\* C19: once an AssemblyAI session has consumed submitted chunks that add
\* up to two max_bytes (64000 bytes under the 1600/32000 policy), however
\* they were split, exactly two binary frames of max_bytes each have been
\* transmitted, and the close branch, finding the buffer empty, adds none.
C19_TwoFullFrames ==
    ConsumedTwoFrames =>
        /\ buffer = <<>>
        /\ Len(BinaryOps) = 2
        /\ BinaryOps[1].data = SubSeq(Flatten(submitted), 1, MaxBytes)
        /\ BinaryOps[2].data = SubSeq(Flatten(submitted), MaxBytes + 1, 2 * MaxBytes)

\* two full frames sent, then the session closed on request
C19_Witness ==
    /\ ConsumedTwoFrames
    /\ Len(submitted) >= 2
    /\ closeSeen
    /\ pc = "done"
    /\ Len(BinaryOps) = 2
    /\ IsTermination(wire[Len(wire) - 1])

-----------------------------------------------------------------------------
(* C21: a vendor error status keeps the vendor's message                   *)

\* the error-status response the last fetch normalized, as transcribe,
\* get_transcript or the polling loop returned it
ErrorNormalized(res) ==
    /\ lastFetch.ok
    /\ lastFetch.status = "Error"
    /\ res = Ok(normalize_response(pollVendor, lastFetch))

\* C21: for every vendor with a job status, a vendor response whose status
\* is Error normalizes to success = false with the code TRANSCRIPTION_ERROR
\* and an error message equal to the message the vendor supplied.
C21_ErrorKeepsVendorMessage ==
    \A res \in {bResult, pollResult} :
        (pollVendor # "Deepgram" /\ ErrorNormalized(res)) =>
            /\ ~res.resp.success
            /\ res.resp.error.code = "TRANSCRIPTION_ERROR"
            /\ lastFetch.error # "None" =>
                   res.resp.error.message = <<lastFetch.error>>

\* what the adapters do: the code and success = false are common; only
\* AssemblyAI copies the vendor's message, Gladia always writes the fixed
\* text, as AssemblyAI does when the vendor sent no message
C21_MessagePerVendor ==
    \A res \in {bResult, pollResult} :
        (pollVendor # "Deepgram" /\ ErrorNormalized(res)) =>
            /\ ~res.resp.success
            /\ res.resp.error.code = "TRANSCRIPTION_ERROR"
            /\ res.resp.error.message =
                   IF pollVendor = "AssemblyAI" /\ lastFetch.error # "None"
                   THEN <<lastFetch.error>> ELSE <<"Transcription failed">>

\* Gladia answered with status error and a message, and the response was
\* normalized
C21_GladiaErrorWithMessage ==
    /\ pollVendor = "Gladia"
    /\ lastFetch.error = "vendor message"
    /\ ErrorNormalized(bResult)

-----------------------------------------------------------------------------
(* C22: Transcript events carry no utterance, Utterance events a final one *)

Parsed == psEvent # NotParsed /\ psEvent # NoStreamEvent

\* C22: for every StreamEvent any vendor's parse_streaming_message yields,
\* type Transcript implies the utterance is absent, and type Utterance
\* implies the utterance is present and is_final = true.
C22_UtteranceIffUtteranceType ==
    Parsed =>
        /\ psEvent.type = "Transcript" => ~psEvent.utterance
        /\ psEvent.type = "Utterance" =>
               (psEvent.utterance /\ psEvent.is_final = Some(TRUE))

\* what the parsers do: Transcript events never carry an utterance and
\* Utterance events are always final, but only Gladia's Utterance event
\* carries the utterance; Deepgram's (UtteranceEnd) carries none
C22_UtterancePerVendor ==
    Parsed =>
        /\ psEvent.type = "Transcript" => ~psEvent.utterance
        /\ psEvent.type = "Utterance" =>
               /\ psEvent.is_final = Some(TRUE)
               /\ psEvent.utterance <=> psVendor = "Gladia"
        /\ psVendor = "AssemblyAI" => psEvent.type # "Utterance"

\* Deepgram parsed an UtteranceEnd message
C22_DeepgramUtteranceEnd ==
    /\ psVendor = "Deepgram"
    /\ psMsg.kind = "utterance"
    /\ Parsed
    /\ psEvent.type = "Utterance"

-----------------------------------------------------------------------------
(* C23: AssemblyAI milliseconds become seconds                             *)

Mapped == twOut # NotMapped

\* C23: for every AssemblyAI word or utterance (map_word, map_utterance,
\* the words of a streaming Turn) with integer-millisecond start_ms and
\* end_ms, the canonical value satisfies start * 1000 = start_ms and
\* end * 1000 = end_ms, and start <= end whenever start_ms <= end_ms.
C23_SecondsTimesThousandIsMs ==
    Mapped =>
        /\ TimesThousand(twOut.start) = Exactly(twStart)
        /\ TimesThousand(twOut.end) = Exactly(twEnd)
        /\ twStart <= twEnd => SecondsLeq(twOut.start, twOut.end)

\* x is the double nearest to ms / 1000, and x * 1000.0 is ms or a double
\* next to ms
NearestDouble(x, ms) ==
    /\ x.ms = ms
    /\ -500 < x.d /\ x.d < 500
    /\ TimesThousand(x).ms = ms
    /\ TimesThousand(x).ulps \in {-1, 0, 1}

\* C23 as the code has it: start and end are the doubles nearest to
\* start_ms / 1000 and end_ms / 1000; multiplied by 1000.0 they give the
\* milliseconds back exactly up to one second, and the milliseconds or a
\* neighbouring double (1000.9999999999999 for 1001 ms) beyond; start <= end
\* whenever start_ms <= end_ms.
C23_SecondsNearestToMs ==
    Mapped =>
        /\ NearestDouble(twOut.start, twStart)
        /\ NearestDouble(twOut.end, twEnd)
        /\ twStart <= 1000 => TimesThousand(twOut.start) = Exactly(twStart)
        /\ twEnd <= 1000 => TimesThousand(twOut.end) = Exactly(twEnd)
        /\ twStart <= twEnd => SecondsLeq(twOut.start, twOut.end)
        /\ twStart > twEnd => ~SecondsLeq(twOut.start, twOut.end)

\* a word from 1001 ms to 1002 ms was mapped: 1001 / 1000.0 * 1000.0 is the
\* double below 1001, 1002 / 1000.0 * 1000.0 is 1002
C23_Witness ==
    /\ Mapped
    /\ twStart = 1001 /\ twEnd = 1002
    /\ TimesThousand(twOut.start) = [ms |-> 1001, ulps |-> -1]
    /\ TimesThousand(twOut.end) = Exactly(1002)
    /\ SecondsLeq(twOut.start, twOut.end)

-----------------------------------------------------------------------------
(* C24: a router needs at least one provider                               *)

\* C24: constructing a VoiceRouter from a configuration with no provider
\* panics with 'VoiceRouter requires at least one provider configuration'
\* and yields no router: nothing is registered and nothing can be selected;
\* any configuration with a provider yields a router.
C24_EmptyConfigPanics ==
    /\ rphase = "panicked" <=>
           newPanic = "VoiceRouter requires at least one provider configuration"
    /\ rphase = "panicked" =>
           (cfgProviders = {} /\ adapters = {} /\ lastSelect = NoSelect)
    /\ rphase = "ready" => (cfgProviders # {} /\ newPanic = "None")

\* VoiceRouter::new was called with an empty provider map
C24_Witness ==
    /\ cfgProviders = {}
    /\ rphase = "panicked"
    /\ newPanic = "VoiceRouter requires at least one provider configuration"

-----------------------------------------------------------------------------
(* C25: an explicit provider is used or refused, never replaced            *)

\* C25: under every selection strategy, select_provider(Some(X)) returns X
\* when X is registered and otherwise fails with InvalidConfig listing the
\* registered providers; it never falls back to another provider, and it
\* leaves the round-robin counter alone.
C25_ExplicitProviderOrInvalidConfig ==
    [][\A X \in Providers :
          SelectProvider(X) =>
              /\ lastSelect'.pref = X
              /\ IF X \in adapters
                 THEN lastSelect'.out = "Ok" /\ lastSelect'.provider = X
                 ELSE /\ lastSelect'.out = "InvalidConfig"
                      /\ lastSelect'.provider = "None"
                      /\ lastSelect'.listed = adapters
              /\ rrIndex' = rrIndex]_vars

\* both outcomes of the last explicit selection, whatever was registered
\* afterwards: the provider asked for, or a refusal that lists only
\* registered providers
C25_LastExplicitSelection ==
    lastSelect.pref # "None" =>
        \/ lastSelect = Selected(lastSelect.pref, lastSelect.pref)
               /\ lastSelect.pref \in adapters
        \/ /\ lastSelect.out = "InvalidConfig"
           /\ lastSelect.pref \notin lastSelect.listed
           /\ lastSelect.listed \subseteq adapters

\* an unregistered provider was asked for while another is registered and
\* is the default, and the call was refused
C25_Witness ==
    /\ lastSelect.pref # "None"
    /\ lastSelect.out = "InvalidConfig"
    /\ lastSelect.listed # {}
    /\ lastSelect.listed = adapters
    /\ strategy = "Default"
    /\ defaultProvider \in adapters

-----------------------------------------------------------------------------
(* C27: the Default strategy returns the default provider                  *)

DefaultSelected ==
    /\ rphase = "ready"
    /\ strategy = "Default"
    /\ lastSelect.pref = "None"
    /\ lastSelect.out # "none"

\* C27: under the Default strategy select_provider(None) returns the
\* configured default provider; when none was configured the router set it
\* at construction to the first registered adapter, so the provider
\* returned always has a registered adapter.
C27_DefaultHasRegisteredAdapter ==
    DefaultSelected =>
        /\ lastSelect = Selected("None", defaultProvider)
        /\ lastSelect.provider \in adapters

\* what the router does: the default is returned as it stands after
\* construction, where an unset default became a configured provider,
\* whether or not an adapter is registered for it
C27_DefaultIsReturnedAsConfigured ==
    DefaultSelected =>
        /\ lastSelect = Selected("None", defaultProvider)
        /\ defaultProvider # "None"

\* the default was returned although another provider, and not the default,
\* has a registered adapter
C27_DefaultWithoutAdapter ==
    /\ DefaultSelected
    /\ lastSelect.out = "Ok"
    /\ lastSelect.provider \notin adapters
    /\ lastSelect.provider \in cfgProviders
    /\ adapters # {}

-----------------------------------------------------------------------------
(* C26: the Explicit strategy never chooses for the caller                 *)

\* C26: under the Explicit strategy select_provider(None) always fails with
\* InvalidConfig, whatever the default provider and the registered adapters
\* are; VoiceRouter::transcribe and VoiceRouter::transcribe_stream therefore
\* fail with it and never reach an adapter.
C26_ExplicitNeverReachesAdapter ==
    (strategy = "Explicit" /\ routed.op \in {"transcribe", "transcribe_stream"}) =>
        /\ routed.sel.pref = "None"
        /\ routed.sel.out = "InvalidConfig"
        /\ routed.sel.provider = "None"
        /\ routed.out = "InvalidConfig"
        /\ routed.invoked = "None"

\* transcribe_stream was refused under Explicit although the configured
\* default has a registered adapter that supports streaming
C26_Witness ==
    /\ strategy = "Explicit"
    /\ routed.op = "transcribe_stream"
    /\ routed.out = "InvalidConfig"
    /\ defaultProvider \in adapters
    /\ streamCaps[defaultProvider]

-----------------------------------------------------------------------------
(* C28: streaming is refused before the adapter is called                  *)

StreamOps == {"transcribe_stream", "transcribe_stream_with_provider"}

\* C28: transcribe_stream_with_provider on an adapter whose
\* capabilities().streaming is false fails with NotSupported and never
\* invokes the adapter's transcribe_stream; an adapter that supports
\* streaming is invoked.
C28_NonStreamingIsNotSupported ==
    [][(routed' # routed /\ routed'.op \in StreamOps /\ routed'.sel.out = "Ok"
            /\ routed'.sel.provider \in adapters) =>
          IF streamCaps[routed'.sel.provider]
          THEN /\ routed'.out = "Adapter"
               /\ routed'.invoked = <<routed'.sel.provider, "transcribe_stream">>
          ELSE /\ routed'.out = "NotSupported"
               /\ routed'.invoked = "None"]_vars

\* a provider was named whose registered adapter does not support
\* streaming, and the call was refused
C28_Witness ==
    /\ routed.op = "transcribe_stream_with_provider"
    /\ routed.sel.out = "Ok"
    /\ routed.sel.provider \in adapters
    /\ ~streamCaps[routed.sel.provider]
    /\ routed.out = "NotSupported"
    /\ routed.invoked = "None"

-----------------------------------------------------------------------------
(* C29: map_encoding_to_provider and the declared support table            *)

MapCalled == enOp = "map_encoding_to_provider" /\ enOut # NotCalled

\* C29: for every (encoding, vendor) pair, map_encoding_to_provider succeeds
\* iff the pair is in the vendor's declared support table (Linear16: all
\* three; Mulaw: Gladia and Deepgram; Alaw: Gladia only; Flac, Opus, Speex,
\* AmrNb, AmrWb, G729: Deepgram only); otherwise it fails with a message
\* naming that vendor's full supported set.
C29_SucceedsIffDeclared ==
    MapCalled =>
        /\ enOut.ok <=> enEncoding \in DeclaredSupport(enVendor)
        /\ ~enOut.ok =>
               enOut.supported = {as_str(e) : e \in DeclaredSupport(enVendor)}

\* what the function does: it succeeds exactly on the pairs its own three
\* tables map, where AssemblyAI takes Mulaw and Alaw as Gladia does, and a
\* failure names the encoding and lists exactly the mapped encodings
C29_SucceedsIffMapped ==
    MapCalled =>
        /\ enOut.ok <=> map_to(enVendor, enEncoding) # "None"
        /\ enOut.ok => enOut.token = map_to(enVendor, enEncoding)
        /\ ~enOut.ok =>
               /\ enOut.names = enEncoding
               /\ enOut.supported =
                      {as_str(e) : e \in {x \in Encodings : map_to(enVendor, x) # "None"}}
        /\ enVendor # "AssemblyAI" =>
               (enOut.ok <=> enEncoding \in DeclaredSupport(enVendor))

\* Mulaw was mapped for AssemblyAI
C29_AssemblyAIMulaw ==
    /\ MapCalled
    /\ enVendor = "AssemblyAI"
    /\ enEncoding = "Mulaw"
    /\ enOut = EncOk("pcm_mulaw")

-----------------------------------------------------------------------------
(* C30: an unsupported encoding is refused, not replaced                   *)

\* the AudioEncoding the caller gave, by name or as the string of
\* StreamingOptions.encoding
GivenEncoding ==
    IF enOp = "build_streaming" THEN encoding_from_str(enEncoding) ELSE enEncoding

\* an encoding was given and the vendor's table does not map it
UnsupportedGiven ==
    /\ enOp # "streaming_token"
    /\ enOut # NotCalled
    /\ enEncoding # "None"
    /\ (GivenEncoding = "None" \/ map_to(enVendor, GivenEncoding) = "None")

\* C30: an encoding a vendor does not support is never silently replaced by
\* another vendor token: opening a stream or validating a configuration
\* with such an encoding fails naming the offending value; nothing is
\* substituted except when no encoding is given.
C30_UnsupportedIsRefused ==
    UnsupportedGiven =>
        /\ ~enOut.ok
        /\ enOut.names = enEncoding

\* what the code does: validate_audio_config and map_encoding_to_provider
\* refuse an unmapped encoding and name it; opening a stream never fails,
\* and sends the PCM token (AssemblyAI, Gladia), the codec's own name
\* (Deepgram) or no encoding at all in its place
C30_RefusedOnlyByValidation ==
    UnsupportedGiven =>
        IF enOp = "build_streaming"
        THEN /\ enOut.ok
             /\ enOut.token \in {"None", "pcm_s16le", "wav/pcm", "alaw", "mp3"}
        ELSE /\ ~enOut.ok
             /\ enOut.names = enEncoding

\* an AssemblyAI stream was opened with opus and pcm_s16le was sent
C30_OpusSentAsPcm ==
    /\ enOp = "build_streaming"
    /\ enVendor = "AssemblyAI"
    /\ enEncoding = "opus"
    /\ enOut = EncOk("pcm_s16le")

-----------------------------------------------------------------------------
(* C31: what WebhookRouter::route returns                                  *)

WebhookRouted == whPayload.json /\ whOut # NotRoutedYet

\* C31: on any well-formed JSON payload route either returns a
\* UnifiedWebhookEvent or fails with UnknownProvider (the envelope matches
\* no vendor) or UnknownEvent (vendor recognized, event name not); it
\* returns success = true only for a recognized completion event and never
\* guesses a vendor.
C31_EventOrUnknown ==
    WebhookRouted =>
        /\ whOut.ok \/ whOut.err \in {"UnknownProvider", "UnknownEvent"}
        /\ (whOut.ok /\ whOut.success) => whPayload.event = "transcription.success"
        /\ whOut.ok => (whOut.provider = "Gladia" /\ IsGladiaEnvelope(whPayload))

\* C31 as the code has it: besides UnknownProvider and UnknownEvent, a
\* Gladia envelope without a string id, or a success event without its
\* payload, fails with InvalidPayload, and an envelope with status and id
\* fails with UnsupportedProvider("assemblyai"); an event is returned only
\* for transcription.success (success = true, Completed) and
\* transcription.error (success = false, Failed) of a Gladia envelope.
C31_RouteOutcomes ==
    WebhookRouted =>
        /\ whOut.ok \/ whOut.err \in {"UnknownProvider", "UnknownEvent",
                                      "InvalidPayload", "UnsupportedProvider"}
        /\ whOut.ok =>
               /\ whOut.provider = "Gladia"
               /\ whPayload.id = "string"
               /\ whPayload.event \in {"transcription.success", "transcription.error"}
               /\ whOut.success <=> whPayload.event = "transcription.success"
               /\ whOut.success => (whPayload.payload /\ whOut.status = "Completed")
               /\ ~whOut.success => whOut.status = "Error"
        /\ (~whOut.ok /\ whOut.err = "UnknownEvent") =>
               (whPayload.event = "transcription.created" /\ whOut.detail = whPayload.event)
        /\ (~whOut.ok /\ whOut.err = "UnknownProvider") =>
               (~IsGladiaEnvelope(whPayload) /\ ~(whPayload.status /\ whPayload.id # "absent"))
        /\ whPayload.event = "job.done" =>
               (~whOut.ok /\ whOut.err \in {"UnknownProvider", "UnsupportedProvider"})

\* a transcription.success envelope without an id was refused as an invalid
\* payload
C31_Witness ==
    /\ WebhookRouted
    /\ whPayload.event = "transcription.success"
    /\ whPayload.id = "absent"
    /\ whOut = WebhookErr("InvalidPayload", "Missing 'id' field")

-----------------------------------------------------------------------------
(* C32: a diarized job polled to completion                                *)

\* the job was Queued, then Processing, then Completed
QueuedProcessingCompleted ==
    dzScript = <<"Queued", "Processing",
                 IF pollVendor = "Gladia" THEN "Done" ELSE "Completed">>

\* every utterance of the completed job carries a speaker, two speakers in
\* all, and the vendor has tagged the words of the transcript
TwoSpeakersTagged ==
    /\ dzBody.utterances.some
    /\ \A i \in DOMAIN dzBody.utterances.val : dzBody.utterances.val[i].speaker.some
    /\ Cardinality({dzBody.utterances.val[i].speaker :
                        i \in DOMAIN dzBody.utterances.val}) = 2
    /\ IF pollVendor = "Gladia"
       THEN \A i \in DOMAIN dzBody.utterances.val : dzBody.utterances.val[i].nwords > 0
       ELSE /\ dzBody.words.some
            /\ dzBody.words.val # <<>>
            /\ \A i \in DOMAIN dzBody.words.val : dzBody.words.val[i].some

-----------------------------------------------------------------------------
(* C33: the fetches for one job                                            *)

\* the status fetches for the job that are awaiting their answer
FetchesInFlight ==
    jfPolling + Cardinality({g \in Getters : jfGetters[g] = "await"})

\* C33: for one job the fetches are strictly sequential: never two status
\* fetches for the same job in flight, each starting only after the
\* previous one has returned and the poll interval has elapsed.
C33_OneFetchInFlight == FetchesInFlight <= 1

\* C33 for the poller alone: poll_for_completion never has two of its own
\* fetches in flight, and sends a request only when its previous one has
\* been answered and, after the first, the sleep has returned; fetches of
\* get_transcript callers are not ordered with them.
C33_PollerFetchesSequential ==
    [][/\ jfPolling' <= 1
       /\ jfPolling' > jfPolling =>
              /\ jfPolling = 0
              /\ jfAttempt = 0 \/ jfSlept]_vars

\* the poller has slept twice and its third fetch is in flight
C33_Witness ==
    /\ jfPc = "await"
    /\ jfPolling = 1
    /\ jfAttempt = 2

-----------------------------------------------------------------------------
(* C34: a fired close trigger ends the loop                                *)

\* the termination message has been sent and the transport closed
TerminatedAndClosed ==
    \E i \in DOMAIN wire :
        /\ wire[i].op = "text"
        /\ wire[i].text = TerminationMessage(vendor)
        /\ \E j \in DOMAIN wire : j > i /\ wire[j].op = "close"

\* C34: if the close trigger is fired while the loop is running and every
\* transport operation completes, the session eventually ends its loop,
\* also while audio and messages keep arriving and when the caller has
\* stopped draining the event channel.
C34_CloseEndsLoop ==
    (closeTx = "fired" /\ closeAt \in {"loop", "handler"}) ~> TaskEnded

-----------------------------------------------------------------------------
(* C35: accepted audio and the termination message                         *)

\* C35: every chunk for which send_audio returned Ok before the close
\* trigger was fired has been transmitted, as a frame of its own or within
\* a buffer flush, when the termination message is sent, and none is left
\* unread in the audio channel. (StreamingSession::close consumes the
\* session, so all its chunks were accepted before the trigger.)
C35_AcceptedAudioBeforeTermination ==
    (api = "session" /\ closeTx = "fired" /\ closeSeen /\ ~SendFailed) =>
        /\ audioQ = <<>>
        /\ Flatten(Frames) = Flatten(submitted)

-----------------------------------------------------------------------------
(* C36: a dropped session                                                  *)

\* C36: if the caller drops the StreamingSession without calling close, the
\* task still terminates: the dropped close sender is observed as a close
\* request, the termination message is sent and the transport is closed.
C36_DropTerminatesAndCloses ==
    (closeTx = "dropped" /\ pc = "select") ~> (TaskEnded /\ TerminatedAndClosed)

\* C36 as the code has it: after the drop the task always ends; when it
\* ends through the close branch the termination message has been sent and
\* the transport closed, but the loop may end before that on a transport
\* close or error, or on an event it cannot deliver to the dropped
\* receiver, and then nothing more is sent.
C36_DropEndsTask ==
    /\ (closeTx = "dropped") ~> TaskEnded
    /\ [](closeSeen => TerminatedAndClosed)
    /\ []((closeTx = "dropped" /\ TaskEnded /\ conn = "ok" /\ ~closeSeen) =>
              \/ received # <<>> /\ received[Len(received)] \in {"close", "err", "eof"}
              \/ received # <<>> /\ parse_streaming_message(vendor,
                                       received[Len(received)], Len(received)) # NoEvent
              \/ SendFailed /\ ~Buffered(vendor))

\* a dropped session whose task took the close branch and ended
C36_Witness ==
    /\ closeTx = "dropped"
    /\ TaskEnded
    /\ closeSeen
    /\ TerminatedAndClosed

-----------------------------------------------------------------------------
(* C37: round-robin selection without a registered adapter                 *)

\* C37: on a constructed router select_provider(None) under RoundRobin
\* returns Ok with a registered provider or an Err; it never panics, also
\* when the configuration is not empty but no adapter is registered.
C37_RoundRobinNeverPanics ==
    (rphase = "ready" /\ strategy = "RoundRobin"
        /\ lastSelect.pref = "None" /\ lastSelect.out # "none") =>
        /\ lastSelect.out \in {"Ok", "InvalidConfig"}
        /\ lastSelect.out = "Ok" => lastSelect.provider \in adapters

-----------------------------------------------------------------------------
(* C38: registered adapters are configured providers                       *)

\* C38: after construction and any register_adapter calls the registered
\* adapters are a subset of the configured providers: construction registers
\* no provider whose initialize failed, and register_adapter changes the
\* adapter map only by adding a configured provider.
C38_RegisteredAreConfigured ==
    [][/\ adapters' \subseteq cfgProviders'
       /\ (rphase = "config" /\ rphase' = "ready") =>
              /\ adapters' \subseteq cfgKeys
              /\ adapters' \cap (cfgProviders \ cfgKeys) = {}
       /\ (rphase = "ready" /\ adapters' # adapters) =>
              \E p \in cfgProviders : adapters' = adapters \cup {p}]_vars

\* a router with a configured provider whose initialize failed and which is
\* not registered, and a custom adapter registered for AzureStt
C38_Witness ==
    /\ rphase = "ready"
    /\ "AzureStt" \in adapters
    /\ "AzureStt" \in cfgProviders
    /\ \E p \in (cfgProviders \cap BuiltIn) \ cfgKeys : p \notin adapters

-----------------------------------------------------------------------------
(* C39: what advances a round-robin counter                                *)

\* C39: a router's counter is advanced only by select_provider(None) on
\* that router under RoundRobin, by exactly 1 per such call; a call with an
\* explicit provider, a call under Explicit or Default and any call on
\* another router leave it unchanged.
C39_CounterFrame ==
    [][/\ rtLast'.n = rtLast.n + 1
       /\ \A r \in Routers :
             IF rtLast'.router = r /\ rtLast'.sel.pref = "None"
                  /\ rtStrategy[r] = "RoundRobin"
             THEN rtIndex'[r] = rtIndex[r] + 1
             ELSE rtIndex'[r] = rtIndex[r]]_vars

\* two round-robin selections on r1, then an explicit one on r2, which also
\* selects round-robin: r1's counter is 2 and r2's still 0
C39_Witness ==
    /\ rtLast.n = 3
    /\ rtStrategy["r1"] = "RoundRobin"
    /\ rtStrategy["r2"] = "RoundRobin"
    /\ rtIndex["r1"] = 2
    /\ rtIndex["r2"] = 0
    /\ rtLast.router = "r2"
    /\ rtLast.sel = Selected("Gladia", "Gladia")

-----------------------------------------------------------------------------
(* C40: the two encoding tables                                            *)

\* the encoding name is accepted by AudioEncoding::from_str of both modules
AcceptedByBoth(str) ==
    streaming_from_str(str) # "None" /\ encoding_from_str(str) # "None"

\* C40: for every encoding name both tables accept, the token of the
\* streaming helper equals the token map_encoding_to_provider gives for the
\* same vendor, and for Gladia the value the streaming request uses.
C40_TablesAgree ==
    (enOp = "streaming_token" /\ enOut # NotCalled /\ AcceptedByBoth(enEncoding)) =>
        /\ enOut = map_encoding_to_provider(encoding_from_str(enEncoding), enVendor)
        /\ enVendor = "Gladia" =>
               enOut.token = to_gladia_request(streaming_from_str(enEncoding))

\* what the tables do agree on: the names both accept and for which
\* map_encoding_to_provider succeeds get the same token from both, except
\* mulaw for Gladia (wav/mulaw from the helper, wav/ulaw from the mapping
\* and in the streaming request)
C40_AgreeWhereMapped ==
    (enOp = "streaming_token" /\ enOut # NotCalled /\ AcceptedByBoth(enEncoding)
        /\ map_encoding_to_provider(encoding_from_str(enEncoding), enVendor).ok
        /\ ~(enVendor = "Gladia" /\ enEncoding = "mulaw")) =>
        /\ enOut = map_encoding_to_provider(encoding_from_str(enEncoding), enVendor)
        /\ enVendor = "Gladia" =>
               enOut.token = to_gladia_request(streaming_from_str(enEncoding))

\* the helper has given wav/mulaw for Gladia
C40_GladiaMulaw ==
    /\ enOp = "streaming_token"
    /\ enVendor = "Gladia"
    /\ enEncoding = "mulaw"
    /\ enOut = EncOk("wav/mulaw")


====
